---- MODULE Spec2Model ----
(***************************************************************************)
(* Multiscope: the audio feature extractor (multiscope/audio_analysis.py), *)
(* the motion feature extractor (multiscope/dance_analysis.py) and the     *)
(* demo report (multiscope/report.py, multiscope/ethnography.py).          *)
(*                                                                         *)
(* Numbers.  A Python float is modelled by an exact rational <<n, d>> in   *)
(* lowest terms with d > 0.  <<0, 0>> is the outcome of a division by zero *)
(* (ZeroDivisionError) and is absorbing.  Square roots are exact when the  *)
(* radicand is the square of a rational and are otherwise truncated to     *)
(* SqrtDigits decimal places.  Floating-point rounding is not modelled.   *)
(***************************************************************************)
EXTENDS Integers, Sequences, FiniteSets, TLC

\* sample_rate        AudioAnalyzer.sample_rate of the shared audio analyzer
\* frame_sample_rate  DanceAnalyzer.frame_sample_rate of the shared dance analyzer
\* constructed        the arguments the two analyzers were constructed with
\* pc                 the call in progress: "idle", the name of the function
\*                    entered, or "returned"
\* args               the arguments of that call, as the caller holds them
\* result             the value returned or the exception raised
VARIABLES sample_rate, frame_sample_rate, constructed, pc, args, result

vars == <<sample_rate, frame_sample_rate, constructed, pc, args, result>>

-----------------------------------------------------------------------------
(* Bounds of the model *)

\* longest mono waveform drawn sample by sample
MaxLen == 3
\* longest multi-channel waveform
MaxGroups == 2
\* length and longest period of the pulse-train waveforms
PulseLen == 16
MaxPeriod == 6
\* longest track of single-dot frames
MaxTrack == 7
\* longest sequence of free-form frames
MaxFrames == 2
\* longest sequence of frames showing a translating square
MaxSquareFrames == 3

\* longest argument list handed to parse_args
MaxArgs == 3

\* an inexact square root is truncated to SqrtDigits decimal places
SqrtDigits == 3

-----------------------------------------------------------------------------
(* Integer helpers *)

Abs(x) == IF x < 0 THEN -x ELSE x

Max(a, b) == IF a >= b THEN a ELSE b

Min(a, b) == IF a <= b THEN a ELSE b

RECURSIVE Gcd(_, _)
Gcd(a, b) == IF b = 0 THEN a ELSE Gcd(b, a % b)

\* floor of the square root of a natural number
RECURSIVE ISqrtBin(_, _, _)
ISqrtBin(n, lo, hi) ==
    IF hi - lo <= 1 THEN lo
    ELSE LET mid == (lo + hi) \div 2
         IN  IF mid <= n \div mid THEN ISqrtBin(n, mid, hi)
             ELSE ISqrtBin(n, lo, mid)

ISqrt(n) == IF n <= 0 THEN 0 ELSE ISqrtBin(n, 1, Min(n, 46340) + 1)

IsSquare(n) == n >= 0 /\ ISqrt(n) * ISqrt(n) = n

-----------------------------------------------------------------------------
(* Rational arithmetic standing for Python float arithmetic *)

Err == <<0, 0>>

IsErr(a) == a[2] = 0

Rat(n, d) ==
    IF d = 0 THEN Err
    ELSE LET g == Gcd(Abs(n), Abs(d))
             s == IF d < 0 THEN -1 ELSE 1
         IN  <<(s * n) \div g, (s * d) \div g>>

R(i) == <<i, 1>>

Zero == <<0, 1>>

RAdd(a, b) ==
    IF IsErr(a) \/ IsErr(b) THEN Err
    ELSE LET g == Gcd(a[2], b[2])
         IN  Rat(a[1] * (b[2] \div g) + b[1] * (a[2] \div g), a[2] * (b[2] \div g))

RNeg(a) == IF IsErr(a) THEN Err ELSE <<-a[1], a[2]>>

RSub(a, b) == RAdd(a, RNeg(b))

RMul(a, b) ==
    IF IsErr(a) \/ IsErr(b) THEN Err
    ELSE LET g == Max(1, Gcd(Abs(a[1]), b[2]))
             h == Max(1, Gcd(Abs(b[1]), a[2]))
         IN  Rat((a[1] \div g) * (b[1] \div h), (a[2] \div h) * (b[2] \div g))

\* a / b; a zero divisor raises ZeroDivisionError
RDiv(a, b) ==
    IF IsErr(a) \/ IsErr(b) \/ b[1] = 0 THEN Err
    ELSE RMul(a, Rat(b[2], b[1]))

RAbs(a) == IF IsErr(a) THEN Err ELSE <<Abs(a[1]), a[2]>>

RLt(a, b) == a[1] * b[2] < b[1] * a[2]

RLe(a, b) == a[1] * b[2] <= b[1] * a[2]

RMax(a, b) == IF IsErr(a) \/ IsErr(b) THEN Err ELSE IF RLt(a, b) THEN b ELSE a

\* x // y on numbers (floor division); a zero divisor raises
RFloorDiv(a, b) ==
    IF IsErr(a) \/ IsErr(b) \/ b[1] = 0 THEN Err
    ELSE LET q == RDiv(a, b) IN R(q[1] \div q[2])

\* floor((q + r / d) * 10 ^ places), by long division
RECURSIVE Shifted(_, _, _, _)
Shifted(q, r, d, places) ==
    IF places = 0 THEN q
    ELSE Shifted(10 * q + (10 * r) \div d, (10 * r) % d, d, places - 1)

\* math.sqrt(a) and a ** 0.5 for a >= 0
RSqrt(a) ==
    IF IsErr(a) THEN Err
    ELSE IF IsSquare(a[1]) /\ IsSquare(a[2]) THEN Rat(ISqrt(a[1]), ISqrt(a[2]))
    ELSE Rat(ISqrt(Shifted(a[1] \div a[2], a[1] % a[2], a[2], 2 * SqrtDigits)),
             Shifted(1, 0, 1, SqrtDigits))

\* s[lo] + ... + s[hi]; the sum of exact fractions does not depend on the
\* order of the additions, and halving keeps the evaluation shallow
RECURSIVE RSumBetween(_, _, _)
RSumBetween(s, lo, hi) ==
    IF lo > hi THEN Zero
    ELSE IF lo = hi THEN s[lo]
    ELSE LET mid == (lo + hi) \div 2
         IN  RAdd(RSumBetween(s, lo, mid), RSumBetween(s, mid + 1, hi))

\* sum(s) over a list of numbers
RSum(s) == RSumBetween(s, 1, Len(s))

HasErr(s) == \E i \in 1..Len(s) : IsErr(s[i])

\* a list comprehension builds its list once: List fixes the elements of s
List(s) == SubSeq(s, 1, Len(s))

-----------------------------------------------------------------------------
(* multiscope/audio_analysis.py *)

\* A waveform as the caller holds it: data is the list of samples; multi says
\* whether the samples are channel groups (lists or tuples of channel values)
\* or plain numbers, which is what isinstance(data[0], (list, tuple)) tests.
Waveform(multi, data) == [multi |-> multi, data |-> data]

\* the exception raised by a call
Raised(name) == [raised |-> name]

MusicalAnalysis(tempo_bpm, key, mode, energy, spectral_centroid, commentary) ==
    [raised |-> "", tempo_bpm |-> tempo_bpm, key |-> key, mode |-> mode,
     energy |-> energy, spectral_centroid |-> spectral_centroid,
     commentary |-> commentary]

\* sum(sample) over the integer channel values of one sample
RECURSIVE IntSumFrom(_, _)
IntSumFrom(s, i) == IF i > Len(s) THEN 0 ELSE s[i] + IntSumFrom(s, i + 1)

ToMono(signal) ==
    LET data == signal.data
    IN  IF data = <<>> THEN <<>>
        ELSE IF signal.multi
        THEN List([i \in 1..Len(data) |->
                 IF data[i] # <<>>
                 THEN RDiv(R(IntSumFrom(data[i], 1)), R(Len(data[i])))
                 ELSE Zero])
        ELSE List([i \in 1..Len(data) |-> R(data[i])])

\* the largest of absolute[lo], ..., absolute[hi]
RECURSIVE PeakBetween(_, _, _)
PeakBetween(absolute, lo, hi) ==
    IF lo = hi THEN absolute[lo]
    ELSE LET mid == (lo + hi) \div 2
         IN  RMax(PeakBetween(absolute, lo, mid), PeakBetween(absolute, mid + 1, hi))

\* max(absolute) over a non-empty list
Peak(absolute) == PeakBetween(absolute, 1, Len(absolute))

\* Normalize without the test for a zero peak
NormalizeUnguarded(signal) ==
    LET absolute == List([i \in 1..Len(signal) |-> RAbs(signal[i])])
        peak == Peak(absolute)
    IN  List([i \in 1..Len(signal) |-> RDiv(signal[i], peak)])

\* Normalize dividing by twice the peak
NormalizeHalved(signal) ==
    LET absolute == List([i \in 1..Len(signal) |-> RAbs(signal[i])])
        peak == Peak(absolute)
    IN  IF peak = Zero THEN signal
        ELSE List([i \in 1..Len(signal) |-> RDiv(signal[i], RMul(R(2), peak))])

Normalize(signal) ==
    LET absolute == List([i \in 1..Len(signal) |-> RAbs(signal[i])])
        peak == Peak(absolute)
    IN  IF peak = Zero THEN signal
        ELSE List([i \in 1..Len(signal) |-> RDiv(signal[i], peak)])

Rms(signal) ==
    LET squares == List([i \in 1..Len(signal) |-> RMul(signal[i], signal[i])])
    IN  RSqrt(RDiv(RSum(squares), R(Len(squares))))

\* MovingAverageIteration leaving the popped value in the accumulator
MovingAverageIterationKeeping(values, window, i, queue, cumulative, averaged) ==
    LET appended == Append(queue, values[i])
        added == RAdd(cumulative, values[i])
        full == Len(appended) > window
        queue1 == IF full THEN Tail(appended) ELSE appended
    IN  [raised |-> "", i |-> i + 1, queue |-> queue1, cumulative |-> added,
         averaged |-> Append(averaged, RDiv(added, R(Len(queue1))))]

\* the body of the loop "for value in values" on values[i]: the local
\* variables after it
MovingAverageIteration(values, window, i, queue, cumulative, averaged) ==
    LET appended == Append(queue, values[i])
        added == RAdd(cumulative, values[i])
        full == Len(appended) > window
        queue1 == IF full THEN Tail(appended) ELSE appended
        cumulative1 == IF full THEN RSub(added, Head(appended)) ELSE added
    IN  [raised |-> "", i |-> i + 1, queue |-> queue1, cumulative |-> cumulative1,
         averaged |-> Append(averaged, RDiv(cumulative1, R(Len(queue1))))]

RECURSIVE MovingAverageLoop(_, _, _, _, _, _)
MovingAverageLoop(values, window, i, queue, cumulative, averaged) ==
    IF i > Len(values) THEN averaged
    ELSE LET after == MovingAverageIteration(values, window, i, queue, cumulative, averaged)
         IN  MovingAverageLoop(values, window, after.i, after.queue, after.cumulative,
                 after.averaged)

MovingAverage(values, window) ==
    IF window <= 1 THEN values
    ELSE MovingAverageLoop(values, window, 1, <<>>, Zero, <<>>)

min_bpm == 40

max_bpm == 200

\* denominator of the 1e-9 threshold on the centered envelope
EpsDen == 1000000000

\* abs(x) < 1e-9
BelowEps(x) == Abs(x[1]) <= (x[2] - 1) \div EpsDen

RECURSIVE CorrelationFrom(_, _, _)
CorrelationFrom(centered, lag, i) ==
    IF i > Len(centered) - lag THEN Zero
    ELSE RAdd(RMul(centered[i], centered[i + lag]),
              CorrelationFrom(centered, lag, i + 1))

\* sum(centered[i] * centered[i + lag] for i in range(len(centered) - lag))
Correlation(centered, lag) == CorrelationFrom(centered, lag, 1)

\* float("-inf")
NegInf == <<-1, 0>>

\* SearchLags letting a later lag of equal correlation win
RECURSIVE SearchLagsLastWins(_, _, _, _, _)
SearchLagsLastWins(centered, lag, max_lag, best_value, best_lag) ==
    IF lag >= max_lag THEN best_lag
    ELSE LET correlation == Correlation(centered, lag)
         IN  IF best_value = NegInf \/ RLe(best_value, correlation)
             THEN SearchLagsLastWins(centered, lag + 1, max_lag, correlation, lag)
             ELSE SearchLagsLastWins(centered, lag + 1, max_lag, best_value, best_lag)

\* the loop "for lag in range(min_lag, max_lag)" from lag onwards
RECURSIVE SearchLags(_, _, _, _, _)
SearchLags(centered, lag, max_lag, best_value, best_lag) ==
    IF lag >= max_lag THEN best_lag
    ELSE LET correlation == Correlation(centered, lag)
         IN  IF best_value = NegInf \/ RLt(best_value, correlation)
             THEN SearchLags(centered, lag + 1, max_lag, correlation, lag)
             ELSE SearchLags(centered, lag + 1, max_lag, best_value, best_lag)

\* EnvelopeWindow rounding the product half up
EnvelopeWindowRounded(sr) == Max(1, (sr + 10) \div 20)

\* int(a / b) for b > 0: the quotient is truncated towards zero
TowardsZero(a, b) == IF a < 0 THEN -((-a) \div b) ELSE a \div b

\* int(sample_rate * 0.05): the product is truncated
EnvelopeWindow(sr) == Max(1, TowardsZero(sr, 20))

\* max(1, int(sample_rate * 60 / max_bpm)): the quotient is truncated
MinLag(sr) == Max(1, TowardsZero(sr * 60, max_bpm))

\* min(len(centered) - 1, int(sample_rate * 60 / max(min_bpm, 1)))
MaxLag(n, sr) == Min(n - 1, TowardsZero(sr * 60, Max(min_bpm, 1)))

EstimateTempo(signal, sr) ==
    LET window == EnvelopeWindow(sr)
        envelope ==
            MovingAverage(List([i \in 1..Len(signal) |-> RAbs(signal[i])]), window)
        mean_env == RDiv(RSum(envelope), R(Len(envelope)))
        centered == List([i \in 1..Len(envelope) |-> RSub(envelope[i], mean_env)])
        min_lag == MinLag(sr)
        max_lag == MaxLag(Len(centered), sr)
        best_lag == SearchLags(centered, min_lag, max_lag, NegInf, min_lag)
    IN  IF \A i \in 1..Len(centered) : BelowEps(centered[i]) THEN Zero
        ELSE IF max_lag <= min_lag THEN Zero
        ELSE IF best_lag = 0 THEN Zero
        ELSE RDiv(R(60 * sr), R(best_lag))

\* range(lo, hi) with hi among the values
RangeInclusive(lo, hi) == [k \in 1..Max(hi - lo + 1, 0) |-> lo + k - 1]

\* range(lo, hi)
Range(lo, hi) == [k \in 1..Max(hi - lo, 0) |-> lo + k - 1]

\* the local variables of _estimate_tempo(signal, sample_rate) when it
\* returns; lags are the values the loop variable took
EstimateTempoLocals(signal, sr) ==
    LET window == EnvelopeWindow(sr)
        envelope ==
            MovingAverage(List([i \in 1..Len(signal) |-> RAbs(signal[i])]), window)
        mean_env == RDiv(RSum(envelope), R(Len(envelope)))
        centered == List([i \in 1..Len(envelope) |-> RSub(envelope[i], mean_env)])
        flat == \A i \in 1..Len(centered) : BelowEps(centered[i])
        min_lag == MinLag(sr)
        max_lag == MaxLag(Len(centered), sr)
    IN  [raised |-> "", window |-> window, centered |-> centered,
         lags |-> IF flat \/ max_lag <= min_lag THEN <<>> ELSE Range(min_lag, max_lag),
         best_lag |-> SearchLags(centered, min_lag, max_lag, NegInf, min_lag),
         tempo |-> EstimateTempo(signal, sr)]

ZeroCrossings(signal) ==
    Cardinality({i \in 1..(Len(signal) - 1) :
        \/ RLe(signal[i], Zero) /\ RLt(Zero, signal[i + 1])
        \/ RLe(Zero, signal[i]) /\ RLt(signal[i + 1], Zero)})

note_names == <<"C", "C#", "D", "D#", "E", "F", "F#", "G", "G#", "A", "A#", "B">>

\* 2 ^ ((k - 1/2) / 12) for k = 0 .. 12, in units of 1/SemitoneScale: the
\* ratios at which round(12 * log2(r)) steps from k - 1 to k
SemitoneScale == 10000

SemitoneEdges ==
    <<9715, 10293, 10905, 11554, 12241, 12968, 13740, 14557, 15422, 16339,
      17311, 18340, 19431>>

\* r >= SemitoneEdges[k] / SemitoneScale
AtLeastEdge(r, k) == r[1] * SemitoneScale >= SemitoneEdges[k] * r[2]

\* round(12 * math.log2(r)) for a ratio r > 0, by octave reduction
RECURSIVE RoundSemitones(_)
RoundSemitones(r) ==
    IF ~AtLeastEdge(r, 1) THEN RoundSemitones(RMul(r, R(2))) - 12
    ELSE IF AtLeastEdge(r, 13) THEN RoundSemitones(RDiv(r, R(2))) + 12
    ELSE Cardinality({k \in 2..12 : AtLeastEdge(r, k)})

\* MidiNumber counting from middle C instead of A4
MidiNumberFromC(frequency) == 60 + RoundSemitones(RDiv(frequency, R(440)))

\* int(round(69 + 12 * math.log2(frequency / 440.0)))
MidiNumber(frequency) == 69 + RoundSemitones(RDiv(frequency, R(440)))

\* NoteLocals with the quotient and the remainder of a division that rounds
\* towards zero
NoteLocalsTruncating(midi_number) ==
    [octave |-> TowardsZero(midi_number, 12) - 1,
     index |-> Abs(midi_number) % 12]

\* the octave and the index into note_names of a MIDI number; // and % of
\* Python round towards minus infinity, as \div and % do
NoteLocals(midi_number) ==
    [octave |-> midi_number \div 12 - 1,
     index |-> midi_number % 12]

\* f"{name}{octave}" for a MIDI number
NoteOfMidi(midi_number) ==
    LET octave == NoteLocals(midi_number).octave
        name == note_names[NoteLocals(midi_number).index + 1]
    IN  name \o ToString(octave)

FrequencyToNote(frequency) ==
    IF RLe(frequency, Zero) THEN "Unknown"
    ELSE NoteOfMidi(MidiNumber(frequency))

EstimateKeyAndMode(signal, sr) ==
    LET zero_crossings == ZeroCrossings(signal)
        duration == RDiv(R(Len(signal)), R(sr))
        frequency == RDiv(R(zero_crossings), RMul(R(2), duration))
        positive_energy ==
            RSum([i \in 1..Len(signal) |->
                     RMul(RMax(signal[i], Zero), RMax(signal[i], Zero))])
        negative_energy ==
            RSum([i \in 1..Len(signal) |->
                     RMul(RMax(RNeg(signal[i]), Zero), RMax(RNeg(signal[i]), Zero))])
    IN  IF IsErr(duration) THEN <<"ZeroDivisionError", "ZeroDivisionError">>
        ELSE IF zero_crossings = 0 \/ duration = Zero THEN <<"Unknown", "Unknown">>
        ELSE <<FrequencyToNote(frequency),
               IF RLe(negative_energy, positive_energy) THEN "Major" ELSE "Minor">>

\* SpectralCentroid without abs() around the differences
SpectralCentroidSigned(signal, sr) ==
    IF Len(signal) < 2 THEN Zero
    ELSE LET differences ==
                 List([i \in 1..(Len(signal) - 1) |-> RSub(signal[i + 1], signal[i])])
             avg_diff == RDiv(RSum(differences), R(Len(differences)))
         IN  RDiv(RMul(avg_diff, R(sr)), R(2))

SpectralCentroid(signal, sr) ==
    IF Len(signal) < 2 THEN Zero
    ELSE LET differences ==
                 List([i \in 1..(Len(signal) - 1) |->
                          RAbs(RSub(signal[i + 1], signal[i]))])
             avg_diff == RDiv(RSum(differences), R(Len(differences)))
         IN  IF differences = <<>> THEN Zero
             ELSE RDiv(RMul(avg_diff, R(sr)), R(2))

\* AudioCommentary counting a tempo of exactly 70 as slow
AudioCommentaryInclusive(tempo, key, mode, energy, spectral_centroid) ==
    << IF tempo = Zero
           THEN "The soundtrack lacks a perceivable pulse, implying an ambient texture."
       ELSE IF RLe(tempo, R(70))
           THEN "The tempo is slow, suggesting a contemplative or ritual pacing."
       ELSE IF RLt(tempo, R(110))
           THEN "The moderate tempo leaves room for expressive phrasing."
       ELSE "The brisk tempo points to lively movement and communal energy.",
       "Dominant pitch content centers around " \o key \o " (" \o mode \o " tonality).",
       IF RLt(energy, Rat(1, 10))
           THEN "Overall dynamics are soft and restrained."
       ELSE IF RLt(energy, Rat(3, 10))
           THEN "Energy levels remain balanced, with measured intensity."
       ELSE "High average energy hints at emphatic percussion or dense instrumentation.",
       IF RLt(spectral_centroid, R(500))
           THEN "Timbre leans toward low, resonant textures."
       ELSE IF RLt(spectral_centroid, R(2000))
           THEN "Mid-range timbres dominate the mix, providing warmth and clarity."
       ELSE "A bright timbral profile indicates significant high-frequency content." >>

\* The commentary is the list of sentences that " ".join(descriptors) glues.
AudioCommentary(tempo, key, mode, energy, spectral_centroid) ==
    << IF tempo = Zero
           THEN "The soundtrack lacks a perceivable pulse, implying an ambient texture."
       ELSE IF RLt(tempo, R(70))
           THEN "The tempo is slow, suggesting a contemplative or ritual pacing."
       ELSE IF RLt(tempo, R(110))
           THEN "The moderate tempo leaves room for expressive phrasing."
       ELSE "The brisk tempo points to lively movement and communal energy.",
       "Dominant pitch content centers around " \o key \o " (" \o mode \o " tonality).",
       IF RLt(energy, Rat(1, 10))
           THEN "Overall dynamics are soft and restrained."
       ELSE IF RLt(energy, Rat(3, 10))
           THEN "Energy levels remain balanced, with measured intensity."
       ELSE "High average energy hints at emphatic percussion or dense instrumentation.",
       IF RLt(spectral_centroid, R(500))
           THEN "Timbre leans toward low, resonant textures."
       ELSE IF RLt(spectral_centroid, R(2000))
           THEN "Mid-range timbres dominate the mix, providing warmth and clarity."
       ELSE "A bright timbral profile indicates significant high-frequency content." >>

\* the tempos _estimate_tempo can return for n samples at rate sr: 0.0, or
\* 60.0 * sr / best_lag for a lag of the search range
TempoCandidates(n, sr) ==
    {Zero} \cup {RDiv(R(60 * sr), R(lag)) : lag \in MinLag(sr)..(MaxLag(n, sr) - 1)}

\* the rest of analyze_signal once the signal is normalized and its tempo known
Descriptor(normalized, sr, tempo) ==
    LET key_mode == EstimateKeyAndMode(normalized, sr)
        energy == Rms(normalized)
        spectral_centroid == SpectralCentroid(normalized, sr)
    IN  IF IsErr(tempo) \/ key_mode[1] = "ZeroDivisionError" \/ IsErr(energy)
            \/ IsErr(spectral_centroid) \/ HasErr(normalized)
        THEN Raised("ZeroDivisionError")
        ELSE MusicalAnalysis(tempo, key_mode[1], key_mode[2], energy, spectral_centroid,
                 AudioCommentary(tempo, key_mode[1], key_mode[2], energy,
                                 spectral_centroid))

\* analyze_signal(signal, sample_rate) on an analyzer whose attribute
\* self.sample_rate is own_rate; sample_rate = 0 stands for None as well
AnalyzeSignalResult(signal, sr_arg, own_rate) ==
    LET flattened == ToMono(signal)
        sr == IF sr_arg # 0 THEN sr_arg ELSE own_rate
        normalized == Normalize(flattened)
    IN  IF flattened = <<>> THEN Raised("ValueError")
        ELSE Descriptor(normalized, sr, EstimateTempo(normalized, sr))

-----------------------------------------------------------------------------
(* multiscope/dance_analysis.py *)

\* A frame as the caller holds it.  shape says what the isinstance tests of
\* _to_matrix and _to_grayscale find: "gray" is a list of rows of numbers,
\* "colour" a list of rows of (r, g, b) pixels, "flat" a list of numbers.
Frame(shape, rows) == [shape |-> shape, rows |-> rows]

DanceAnalysis(average_motion, motion_variability, direction_changes, footwork_intensity, commentary) ==
    [raised |-> "", average_motion |-> average_motion,
     motion_variability |-> motion_variability,
     direction_changes |-> direction_changes,
     footwork_intensity |-> footwork_intensity, commentary |-> commentary]

\* the matrix of floats of a frame; a flat frame becomes a single row
ToMatrix(frame) ==
    IF frame.rows # <<>> /\ frame.shape = "colour"
    THEN Frame("colour",
             List([y \in 1..Len(frame.rows) |->
                 List([x \in 1..Len(frame.rows[y]) |->
                     List([c \in 1..Len(frame.rows[y][x]) |-> R(frame.rows[y][x][c])])])]))
    ELSE IF frame.rows # <<>> /\ frame.shape = "gray"
    THEN Frame("gray",
             List([y \in 1..Len(frame.rows) |->
                 List([x \in 1..Len(frame.rows[y]) |-> R(frame.rows[y][x])])]))
    ELSE IF frame.rows # <<>> /\ frame.shape = "flat"
    THEN Frame("gray", <<List([x \in 1..Len(frame.rows) |-> R(frame.rows[x])])>>)
    ELSE Frame("gray", <<>>)

\* 0.2989 * pixel[0] + 0.5870 * pixel[1] + 0.1140 * pixel[2]
Luma(pixel) ==
    RAdd(RAdd(RMul(Rat(2989, 10000), pixel[1]), RMul(Rat(5870, 10000), pixel[2])),
         RMul(Rat(1140, 10000), pixel[3]))

\* the rows of intensities of a matrix
ToGrayscale(frame) ==
    IF frame.rows # <<>> /\ frame.rows[1] # <<>> /\ frame.shape = "colour"
    THEN List([y \in 1..Len(frame.rows) |->
             List([x \in 1..Len(frame.rows[y]) |-> Luma(frame.rows[y][x])])])
    ELSE frame.rows

\* the pixels (y, x), 1-based, that both frames have
Overlap(prev, curr) ==
    UNION {{<<y, x>> : x \in 1..Min(Len(prev[y]), Len(curr[y]))} :
              y \in 1..Min(Len(prev), Len(curr))}

\* the sum of term[p] over a finite set of pixels
RECURSIVE RSumOver(_, _)
RSumOver(pixels, term) ==
    IF pixels = {} THEN Zero
    ELSE LET p == CHOOSE q \in pixels : TRUE
         IN  RAdd(term[p], RSumOver(pixels \ {p}, term))

\* FrameDifference without abs() around the pixel differences
FrameDifferenceSigned(prev, curr) ==
    LET pixels == Overlap(prev, curr)
        total == RSumOver(pixels,
                     [p \in pixels |-> RSub(curr[p[1]][p[2]], prev[p[1]][p[2]])])
        count == Cardinality(pixels)
    IN  IF count # 0 THEN RDiv(total, R(count)) ELSE Zero

\* one entry of the motion profile
FrameDifference(prev, curr) ==
    LET pixels == Overlap(prev, curr)
        total == RSumOver(pixels,
                     [p \in pixels |-> RAbs(RSub(curr[p[1]][p[2]], prev[p[1]][p[2]]))])
        count == Cardinality(pixels)
    IN  IF count # 0 THEN RDiv(total, R(count)) ELSE Zero

\* MotionProfile measuring every frame against the first one
MotionProfileFromFirst(frames) ==
    List([k \in 1..Max(Len(frames) - 1, 0) |->
             FrameDifference(frames[1], frames[k + 1])])

\* zip(frames, frames[1:]) pairs each frame but the last with its successor
MotionProfile(frames) ==
    List([k \in 1..Max(Len(frames) - 1, 0) |->
             FrameDifference(frames[k], frames[k + 1])])

\* the pixels (y, x), 1-based, of a frame
Pixels(frame) == UNION {{<<y, x>> : x \in 1..Len(frame[y])} : y \in 1..Len(frame)}

\* CenterOfMass without the fallback for a total intensity of zero
CenterOfMassUnguarded(frame) ==
    LET pixels == Pixels(frame)
        total == RSumOver(pixels, [p \in pixels |-> frame[p[1]][p[2]]])
        y_sum == RSumOver(pixels, [p \in pixels |-> RMul(R(p[1] - 1), frame[p[1]][p[2]])])
        x_sum == RSumOver(pixels, [p \in pixels |-> RMul(R(p[2] - 1), frame[p[1]][p[2]])])
    IN  <<RDiv(y_sum, total), RDiv(x_sum, total)>>

\* the (y, x) centre of mass of one frame
CenterOfMass(frame) ==
    LET pixels == Pixels(frame)
        total == RSumOver(pixels, [p \in pixels |-> frame[p[1]][p[2]]])
        y_sum == RSumOver(pixels, [p \in pixels |-> RMul(R(p[1] - 1), frame[p[1]][p[2]])])
        x_sum == RSumOver(pixels, [p \in pixels |-> RMul(R(p[2] - 1), frame[p[1]][p[2]])])
    IN  IF total = Zero
        THEN <<RDiv(R(Len(frame)), R(2)),
               IF frame # <<>> THEN RDiv(R(Len(frame[1])), R(2)) ELSE Zero>>
        ELSE <<RDiv(y_sum, total), RDiv(x_sum, total)>>

CenterOfMassTrajectory(frames) ==
    List([k \in 1..Len(frames) |-> CenterOfMass(frames[k])])

\* 1 if delta_x > 0 else -1 if delta_x < 0 else 0
Sign(delta_x) == IF RLt(Zero, delta_x) THEN 1 ELSE IF RLt(delta_x, Zero) THEN -1 ELSE 0

\* NextPrevSign with a zero delta forgetting the remembered sign
NextPrevSignReset(prev_sign, sign) == sign

\* prev_sign after a step of the loop
NextPrevSign(prev_sign, sign) == IF sign # 0 THEN sign ELSE prev_sign

\* the loop over zip(trajectory, trajectory[1:]) from pair k onwards
RECURSIVE DirectionLoop(_, _, _, _)
DirectionLoop(trajectory, k, changes, prev_sign) ==
    IF k >= Len(trajectory) THEN changes
    ELSE LET delta_x == RSub(trajectory[k + 1][2], trajectory[k][2])
             sign == Sign(delta_x)
             changes1 == IF prev_sign # 0 /\ sign # 0 /\ sign # prev_sign
                         THEN changes + 1 ELSE changes
         IN  DirectionLoop(trajectory, k + 1, changes1, NextPrevSign(prev_sign, sign))

CountDirectionChanges(trajectory) ==
    IF Len(trajectory) < 3 THEN 0 ELSE DirectionLoop(trajectory, 1, 0, 0)

\* ((right - center) ** 2 + (down - center) ** 2) ** 0.5 at pixel p
Gradient(frame, p) ==
    LET y == p[1]
        x == p[2]
        center == frame[y][x]
        right == IF x + 1 <= Len(frame[y]) THEN frame[y][x + 1] ELSE center
        down == IF y + 1 <= Len(frame) THEN frame[y + 1][x] ELSE center
    IN  RSqrt(RAdd(RMul(RSub(right, center), RSub(right, center)),
                   RMul(RSub(down, center), RSub(down, center))))

\* the mean gradient magnitude of one frame
FrameGradient(frame) ==
    LET pixels == Pixels(frame)
        total == RSumOver(pixels, [p \in pixels |-> Gradient(frame, p)])
        count == Cardinality(pixels)
    IN  IF count # 0 THEN RDiv(total, R(count)) ELSE Zero

EstimateFootworkIntensity(frames) ==
    LET gradients == List([k \in 1..Len(frames) |-> FrameGradient(frames[k])])
    IN  IF gradients # <<>> THEN RDiv(RSum(gradients), R(Len(gradients))) ELSE Zero

Stddev(values) ==
    IF values = <<>> THEN Zero
    ELSE LET mean_value == RDiv(RSum(values), R(Len(values)))
             variance ==
                 RDiv(RSum([i \in 1..Len(values) |->
                               RMul(RSub(values[i], mean_value),
                                    RSub(values[i], mean_value))]),
                      R(Len(values)))
         IN  RSqrt(variance)

\* the local variables gray_frames, motion_profile, average_motion and
\* motion_variability of analyze_frames(frames, fps) on frames that are not
\* empty
AnalyzeFramesLocals(frames) ==
    LET gray_frames == List([k \in 1..Len(frames) |-> ToGrayscale(ToMatrix(frames[k]))])
        motion_profile == MotionProfile(gray_frames)
    IN  [raised |-> "", gray_frames |-> gray_frames, motion_profile |-> motion_profile,
         average_motion |->
             IF motion_profile # <<>>
             THEN RDiv(RSum(motion_profile), R(Len(motion_profile))) ELSE Zero,
         motion_variability |->
             IF motion_profile # <<>> THEN Stddev(motion_profile) ELSE Zero]

\* fps / max(1, fps // self.frame_sample_rate) if fps else 0
EffectiveSampling(fps, own_rate) ==
    IF fps = 0 THEN Zero
    ELSE RDiv(R(fps), RMax(R(1), RFloorDiv(R(fps), R(own_rate))))

\* the decimal digits of k, zero-padded to the given number of places
RECURSIVE Digits(_, _)
Digits(k, places) ==
    IF places = 0 THEN "" ELSE Digits(k \div 10, places - 1) \o ToString(k % 10)

\* f"{value:.1f}" and f"{value:.3f}" for value >= 0, scale = 10 ^ places:
\* the nearest multiple of 1/scale, a tie going to the even one
RoundedUnits(value, scale) ==
    LET halves == (value[1] * 2 * scale) \div value[2]
        exact == (value[1] * 2 * scale) % value[2] = 0
    IN  IF halves % 2 = 0 THEN halves \div 2
        ELSE IF exact /\ (halves \div 2) % 2 = 0 THEN halves \div 2
        ELSE halves \div 2 + 1

FormatFixed(value, places, scale) ==
    LET units == RoundedUnits(value, scale)
    IN  ToString(units \div scale) \o "." \o Digits(units % scale, places)

Format1f(value) == FormatFixed(value, 1, 10)

Format3f(value) == FormatFixed(value, 3, 1000)

\* The commentary is the list of sentences that " ".join(descriptors) glues.
DanceCommentary(average_motion, motion_variability, direction_changes, footwork_intensity, effective_sampling) ==
    << IF RLt(average_motion, Rat(1, 100))
           THEN "Movement is minimal, indicating either stillness or slow gestures."
       ELSE IF RLt(average_motion, Rat(5, 100))
           THEN "The dance exhibits contained motion with deliberate control."
       ELSE "High motion energy points to vigorous, full-bodied choreography.",
       IF RLt(motion_variability, Rat(1, 100))
           THEN "Motion variance is low, suggesting repeated, cyclical phrases."
       ELSE "Variation in motion indicates dynamic phrasing and spatial exploration.",
       IF direction_changes = 0
           THEN "The dancer maintains a consistent facing with minimal turns."
       ELSE IF direction_changes < 3
           THEN "A handful of direction changes provide accent and contrast."
       ELSE "Frequent turns and reorientations signal intricate partnering or folk steps.",
       IF RLt(footwork_intensity, Rat(2, 100))
           THEN "Footwork articulation is subtle, favouring upper-body expression."
       ELSE IF RLt(footwork_intensity, Rat(5, 100))
           THEN "Balanced footwork supports gestures across the body."
       ELSE "Pronounced footwork dominates the choreography, highlighting rhythmic grounding.",
       "Frame sampling at approximately " \o Format1f(effective_sampling)
           \o " fps captures the movement envelope." >>

\* NoFrames never finding the frame sequence empty
NoFramesUnchecked(frames) == FALSE

\* "not frames", the test that guards analyze_frames
NoFrames(frames) == frames = <<>>

\* analyze_frames(frames, fps) on an analyzer whose attribute
\* self.frame_sample_rate is own_rate
AnalyzeFramesResult(frames, fps, own_rate) ==
    LET gray_frames == List([k \in 1..Len(frames) |-> ToGrayscale(ToMatrix(frames[k]))])
        motion_profile == MotionProfile(gray_frames)
        movement_vectors == CenterOfMassTrajectory(gray_frames)
        average_motion ==
            IF motion_profile # <<>>
            THEN RDiv(RSum(motion_profile), R(Len(motion_profile))) ELSE Zero
        motion_variability ==
            IF motion_profile # <<>> THEN Stddev(motion_profile) ELSE Zero
        direction_changes == CountDirectionChanges(movement_vectors)
        footwork_intensity == EstimateFootworkIntensity(gray_frames)
        effective_sampling == EffectiveSampling(fps, own_rate)
    IN  IF NoFrames(frames) THEN Raised("ValueError")
        ELSE IF \/ IsErr(average_motion) \/ IsErr(motion_variability)
                \/ \E k \in 1..Len(movement_vectors) : HasErr(movement_vectors[k])
                \/ IsErr(footwork_intensity) \/ IsErr(effective_sampling)
        THEN Raised("ZeroDivisionError")
        ELSE DanceAnalysis(average_motion, motion_variability, direction_changes,
                 footwork_intensity,
                 DanceCommentary(average_motion, motion_variability, direction_changes,
                                 footwork_intensity, effective_sampling))

-----------------------------------------------------------------------------
(* multiscope/ethnography.py and multiscope/report.py *)

\* The metadata argument: given is FALSE for None; dict is the dictionary, a
\* function from the keys it holds to their values.
Metadata(given, dict) == [given |-> given, dict |-> dict]

EmptyDict == [k \in {} |-> ""]

\* metadata or {}
OrEmpty(metadata) ==
    IF metadata.given /\ DOMAIN metadata.dict # {} THEN metadata.dict ELSE EmptyDict

\* dict.get(key, default)
Get(dict, key, default) == IF key \in DOMAIN dict THEN dict[key] ELSE default

\* str.lower() on the commentaries the demo report passes through it
Lower(text) ==
    CASE text = "Steady mid-tempo pulse with expressive dynamics and a darker modal colour."
           -> "steady mid-tempo pulse with expressive dynamics and a darker modal colour."
      [] text = "Controlled yet expressive phrasing with grounded footwork and measured spins."
           -> "controlled yet expressive phrasing with grounded footwork and measured spins."

\* BuildSummary reading the location under another key
BuildSummaryWrongKey(musical, dance, metadata) ==
    LET location == Get(metadata, "place", "an unspecified locale")
        era == Get(metadata, "era", "contemporary times")
        performer == Get(metadata, "performer", "the featured performers")
    IN  <<"Set in ", location, " during ", era, ", ", performer,
          " present a performance where music in ", musical.key, " (", musical.mode,
          ") converges with a dance exhibiting ", Lower(dance.commentary)>>

\* The summary is the list of the pieces of the f-string, in order.
BuildSummary(musical, dance, metadata) ==
    LET location == Get(metadata, "location", "an unspecified locale")
        era == Get(metadata, "era", "contemporary times")
        performer == Get(metadata, "performer", "the featured performers")
    IN  <<"Set in ", location, " during ", era, ", ", performer,
          " present a performance where music in ", musical.key, " (", musical.mode,
          ") converges with a dance exhibiting ", Lower(dance.commentary)>>

BuildMusicalContext(musical, metadata) ==
    LET instruments == Get(metadata, "instruments", "percussion and melodic instruments")
        tradition == Get(metadata, "musical_tradition", "regional folk traditions")
    IN  <<"Tempo around ", Format1f(musical.tempo_bpm), " BPM and ",
          Lower(musical.commentary), " hint at ", tradition,
          ". Instrumentation likely features ", instruments, ".">>

BuildDanceContext(dance, metadata) ==
    LET dance_lineage == Get(metadata, "dance_lineage", "community-based line dances")
        attire == Get(metadata, "attire", "ceremonial garments")
    IN  <<"Movement quality marked by average motion ", Format3f(dance.average_motion),
          " and ", Lower(dance.commentary), " connects to ", dance_lineage,
          ". Costuming such as ", attire, " would complement the choreography.">>

BuildIndicators(musical, dance, metadata) ==
    [community_participation |->
         "High" \o ": "
         \o "Energetic tempo and frequent direction changes suggest group engagement.",
     ritual_significance |->
         (IF RLt(Zero, musical.tempo_bpm) THEN "Moderate" ELSE "Speculative") \o ": "
         \o "Sustained rhythmic pulse implies repeated ceremonial use.",
     gender_roles |->
         Get(metadata, "gender_roles", "Fluid") \o ": "
         \o "No direct indicators from movement; consider oral histories for clarity."]

\* CulturalEthnographer.generate
Generate(musical, dance, metadata) ==
    LET dict == OrEmpty(metadata)
    IN  [summary |-> BuildSummary(musical, dance, dict),
         musical_context |-> BuildMusicalContext(musical, dict),
         dance_context |-> BuildDanceContext(dance, dict),
         cultural_indicators |-> BuildIndicators(musical, dance, dict)]

\* the musical descriptor generate_demo_report builds
DemoMusical(metadata) ==
    MusicalAnalysis(R(108), "D Minor", "Minor", Rat(62, 100), R(1450),
        "Steady mid-tempo pulse with expressive dynamics and a darker modal colour.")

\* the dance descriptor generate_demo_report builds
DemoDance(metadata) ==
    DanceAnalysis(Rat(318, 1000), Rat(142, 1000), 7, Rat(487, 1000),
        "Controlled yet expressive phrasing with grounded footwork and measured spins.")

\* generate_demo_report(metadata=metadata) with the default ethnographer
GenerateDemoReport(metadata) ==
    LET given == Metadata(TRUE, OrEmpty(metadata))
        musical == DemoMusical(given)
        dance == DemoDance(given)
    IN  [raised |-> "", musical |-> musical, dance |-> dance,
         ethnography |-> Generate(musical, dance, given)]

-----------------------------------------------------------------------------
(* The calls the callers make *)

Samples == {-2, -1, 0, 1, 2}

MonoWaveforms ==
    {Waveform(FALSE, data) : data \in UNION {[1..k -> Samples] : k \in 0..MaxLen}}

ChannelGroups == {<<>>, <<1>>, <<1, -1>>, <<2, 1>>, <<-2, -2>>}

MultiWaveforms ==
    {Waveform(TRUE, data) :
        data \in UNION {[1..k -> ChannelGroups] : k \in 1..MaxGroups}}

\* a click every period samples
PulseTrain(period) ==
    Waveform(FALSE, [i \in 1..PulseLen |-> IF (i - 1) % period = 0 THEN 1 ELSE 0])

PulseTrains == {PulseTrain(period) : period \in 2..MaxPeriod}

\* the sample_rate argument, which nothing validates; 0 stands for None
SampleRateArgs == {-4, 0, 2, 4, 40}

\* the (signal, sample_rate) arguments
SignalCalls ==
    ((MonoWaveforms \cup MultiWaveforms) \X SampleRateArgs)
        \cup (PulseTrains \X {2, 10, 40})

\* the columns (0-based) of the one-row frames of a track
TrackColumns == 0..3

\* a one-row frame, dark but for a bright dot in column x
DotFrame(x) ==
    Frame("gray", <<[c \in 1..Cardinality(TrackColumns) |-> IF c = x + 1 THEN 1 ELSE 0]>>)

\* the dot starts in an outer column and moves by at most one column per frame
Walks ==
    UNION {{w \in [1..k -> TrackColumns] :
               /\ w[1] \in {0, 3}
               /\ \A i \in 1..(k - 1) : Abs(w[i + 1] - w[i]) <= 1} : k \in 1..MaxTrack}

TrackOf(walk) == [k \in 1..Len(walk) |-> DotFrame(walk[k])]

Tracks == {TrackOf(w) : w \in Walks}

\* the columns and rows (0-based) of the frames showing a square
SquareColumns == 0..3

SquareRows == 0..2

\* a frame showing a size x size square of intensity bright at column x0 and
\* row y0 (0-based) on a background of intensity dark
SquareFrame(size, x0, y0, bright, dark) ==
    Frame("gray",
        [y \in 1..Cardinality(SquareRows) |->
            [x \in 1..Cardinality(SquareColumns) |->
                IF x - 1 >= x0 /\ x - 1 < x0 + size /\ y - 1 >= y0 /\ y - 1 < y0 + size
                THEN bright ELSE dark]])

\* the square translates by (dx, dy) per frame and stays inside the frame
SquareMoves ==
    {m \in [size : 1..2, x0 : SquareColumns, y0 : SquareRows,
            dx : -1..1, dy : -1..1, n : 2..MaxSquareFrames,
            bright : 1..2, dark : 0..1] :
        /\ m.dx # 0 \/ m.dy # 0
        /\ m.bright > m.dark
        /\ \A i \in 0..(m.n - 1) :
              /\ m.x0 + i * m.dx >= 0
              /\ m.x0 + i * m.dx + m.size <= Cardinality(SquareColumns)
              /\ m.y0 + i * m.dy >= 0
              /\ m.y0 + i * m.dy + m.size <= Cardinality(SquareRows)}

SquareSequence(m) ==
    [k \in 1..m.n |->
        SquareFrame(m.size, m.x0 + (k - 1) * m.dx, m.y0 + (k - 1) * m.dy,
                    m.bright, m.dark)]

SquareSequences == {SquareSequence(m) : m \in SquareMoves}

\* the colour frame is black: the squares of four-decimal luma values do not
\* fit 32-bit integers
FreeFrames ==
    {Frame("gray", <<>>), Frame("gray", <<<<>>>>),
     Frame("gray", <<<<0>>>>), Frame("gray", <<<<1>>>>),
     Frame("gray", <<<<0, 1>>>>), Frame("gray", <<<<2, 0>>>>),
     Frame("gray", <<<<-1, 1>>>>), Frame("gray", <<<<1>>, <<0>>>>),
     Frame("gray", <<<<0, 0>>, <<0, 0>>>>), Frame("gray", <<<<0, 1>>, <<1, 1>>>>),
     Frame("flat", <<1, 0>>),
     Frame("colour", <<<< <<0, 0, 0>>, <<0, 0, 0>> >>>>)}

FreeSequences == UNION {[1..k -> FreeFrames] : k \in 0..MaxFrames}

FrameRates == {0, 3, 7, 24}

\* the (frames, fps) arguments
FrameCalls ==
    (FreeSequences \X {0, 24})
        \cup ((Tracks \cup SquareSequences) \X {24})
        \cup ({<<frame>> : frame \in FreeFrames} \X FrameRates)

MetaKeys == {"location", "era", "gender_roles"}

MetaValues == {"Test City", "Oaxaca"}

Dicts == UNION {[keys -> MetaValues] : keys \in SUBSET MetaKeys}

Metadatas == {Metadata(FALSE, EmptyDict)} \cup {Metadata(TRUE, dict) : dict \in Dicts}

\* the argument lists handed to parse_args
ArgTokens == {"--demo", "--metadata", "video.mp4", "meta.json"}

ArgLists == UNION {[1..k -> ArgTokens] : k \in 0..MaxArgs}

\* tests/test_audio_analysis.py: the pure tone
ToneRate == 4000
ToneFrequency == 440
ToneLength == ToneRate \div 2

\* math.sin over a quarter turn, in steps of 1/100 turn and units of 1/100
QuarterSine ==
    <<0, 6, 13, 19, 25, 31, 37, 43, 48, 54, 59, 64, 68, 73, 77, 81, 84, 88, 90,
      93, 95, 97, 98, 99, 100, 100>>

\* math.sin(2 * math.pi * j / 100) for j in 0 .. 99.  At j = 0 and j = 50
\* the float argument is not exactly a multiple of pi and the float result is
\* a tiny number of either sign: residue is that sign.
Sine(j, residue) ==
    IF j = 0 \/ j = 50 THEN residue
    ELSE IF j <= 25 THEN QuarterSine[j + 1]
    ELSE IF j < 50 THEN QuarterSine[50 - j + 1]
    ELSE IF j <= 75 THEN -QuarterSine[j - 50 + 1]
    ELSE -QuarterSine[100 - j + 1]

\* the samples of the tone in units of 1/100 (_normalize divides by the
\* peak, which takes the unit out again); sample 0 is sin(0.0) = 0.0, and the
\* later multiples of half a period carry the residue
PureTone(residue) ==
    Waveform(FALSE,
        List([i \in 1..ToneLength |->
            IF i = 1 THEN 0
            ELSE Sine(((ToneFrequency * 100 * (i - 1)) \div ToneRate) % 100, residue)]))

Residues == {-1, 0, 1}

\* AudioAnalyzer(sample_rate) and DanceAnalyzer(frame_sample_rate) as constructed
Configs == {<<22050, 3>>, <<4, 0>>}

-----------------------------------------------------------------------------
(* multiscope/cli.py *)

\* None, and a value that is present
None == <<>>

Some(value) == <<value>>

\* argparse takes a token that starts with "-" for an option string
IsOptionString(token) == token \in {"--demo", "--metadata", "--output"}

\* the namespace before any token is read: the defaults of the four arguments
Defaults == [raised |-> "", media |-> None, metadata |-> None, output |-> None,
             demo |-> FALSE]

\* parser.parse_args(argv) from token i on: --demo stores True, --metadata
\* takes the next token unless there is none or it is an option string, the
\* first other token is media (nargs="?"), a second one is unrecognized
RECURSIVE ArgParse(_, _, _)
ArgParse(argv, i, namespace) ==
    IF i > Len(argv) THEN namespace
    ELSE IF argv[i] = "--demo"
    THEN ArgParse(argv, i + 1, [namespace EXCEPT !.demo = TRUE])
    ELSE IF argv[i] = "--metadata"
    THEN IF i + 1 > Len(argv) \/ IsOptionString(argv[i + 1])
         THEN Raised("SystemExit")
         ELSE ArgParse(argv, i + 2, [namespace EXCEPT !.metadata = Some(argv[i + 1])])
    ELSE IF namespace.media = None
    THEN ArgParse(argv, i + 1, [namespace EXCEPT !.media = Some(argv[i])])
    ELSE Raised("SystemExit")

\* DemoWithMedia letting a media path through beside --demo
DemoWithMediaAllowed(namespace) == FALSE

\* args.demo and args.media is not None
DemoWithMedia(namespace) == namespace.demo /\ namespace.media # None

\* cli.parse_args(argv)
ParseArgsResult(argv) ==
    LET namespace == ArgParse(argv, 1, Defaults)
    IN  IF namespace.raised # "" THEN namespace
        ELSE IF DemoWithMedia(namespace) THEN Raised("SystemExit")
        ELSE IF ~namespace.demo /\ namespace.media = None THEN Raised("SystemExit")
        ELSE namespace

-----------------------------------------------------------------------------
(* multiscope/webapp.py *)

\* A str is a list of items: a run of ASCII text (free of & < > " and '
\* wherever html.escape reads it), one character given by its code point, or a
\* segment of TEMPLATE between two placeholders.
Lit(text) == <<"lit", text>>

Cp(code) == <<"cp", code>>

Segment(k) == <<"template", k>>

\* the str of the characters whose code points are codes
Text(codes) == List([i \in 1..Len(codes) |-> Cp(codes[i])])

\* the lengths of TEMPLATE before, between and after its four placeholders
TemplateSegments == <<2387, 410, 116, 144, 31>>

\* html.escape(s), quote=True
EscapeItem(item) ==
    IF item[1] # "cp" THEN item
    ELSE CASE item[2] = 38 -> Lit("&amp;")
           [] item[2] = 60 -> Lit("&lt;")
           [] item[2] = 62 -> Lit("&gt;")
           [] item[2] = 34 -> Lit("&quot;")
           [] item[2] = 39 -> Lit("&#x27;")
           [] OTHER -> item

Escape(items) == List([i \in 1..Len(items) |-> EscapeItem(items[i])])

\* the bytes of one code point in UTF-8
Utf8(code) ==
    IF code < 128 THEN <<code>>
    ELSE IF code < 2048 THEN <<192 + (code \div 64), 128 + (code % 64)>>
    ELSE IF code < 65536
    THEN <<224 + (code \div 4096), 128 + ((code \div 64) % 64), 128 + (code % 64)>>
    ELSE <<240 + (code \div 262144), 128 + ((code \div 4096) % 64),
           128 + ((code \div 64) % 64), 128 + (code % 64)>>

\* body.encode("utf-8"): ASCII runs encode to themselves
Encode(body) ==
    List([i \in 1..Len(body) |->
        IF body[i][1] = "cp" THEN <<"bytes", Utf8(body[i][2])>> ELSE body[i]])

\* the length of one item of a str or of an encoded body
ItemLength(item) ==
    CASE item[1] = "bytes" -> Len(item[2])
      [] item[1] = "cp" -> 1
      [] item[1] = "lit" -> Len(item[2])
      [] item[1] = "template" -> TemplateSegments[item[2]]

\* the length of items lo .. hi, by halves
RECURSIVE LengthBetween(_, _, _)
LengthBetween(items, lo, hi) ==
    IF lo > hi THEN 0
    ELSE IF lo = hi THEN ItemLength(items[lo])
    ELSE LET mid == (lo + hi) \div 2
         IN  LengthBetween(items, lo, mid) + LengthBetween(items, mid + 1, hi)

\* len() of an encoded body, in bytes
ByteLength(encoded) == LengthBetween(encoded, 1, Len(encoded))

\* the values a parsed form holds: a str, the bytes of an uploaded part, or
\* the FieldStorage of the part named media
Str(codes) == [kind |-> "str", codes |-> codes]

Bytes(codes) == [kind |-> "bytes", codes |-> codes]

Field(filename, codes) == [kind |-> "field", filename |-> filename, codes |-> codes]

\* one name=value pair, or one part of a multipart body
Part(name, filename, codes) == [name |-> name, filename |-> filename, codes |-> codes]

NoFields == [name \in {} |-> Str(<<>>)]

\* fields[key] = value
Put(fields, key, value) ==
    [name \in DOMAIN fields \cup {key} |-> IF name = key THEN value ELSE fields[name]]

\* content_type.startswith("multipart/form-data")
IsMultipart(content_type) ==
    content_type \in {"multipart/form-data", "multipart/form-data; boundary=B"}

\* the loop over field_storage.list, and the loop over parse_qs(decoded):
\* later values of a name replace earlier ones
RECURSIVE ParseParts(_, _, _, _)
ParseParts(parts, i, multipart, fields) ==
    IF i > Len(parts) THEN fields
    ELSE LET part == parts[i]
             value == IF part.filename = None THEN Str(part.codes)
                      ELSE Bytes(part.codes)
         IN  ParseParts(parts, i + 1, multipart,
                 IF ~multipart THEN Put(fields, part.name, Str(part.codes))
                 ELSE IF part.name = "media"
                 THEN Put(fields, "media_file", Field(part.filename, part.codes))
                 ELSE IF part.name # "" THEN Put(fields, part.name, value)
                 ELSE fields)

\* _parse_form(environ): body.decode("utf-8") raises on a body that is not
\* UTF-8, and an empty body is never decoded
ParseForm(request) ==
    IF IsMultipart(request.content_type)
    THEN [raised |-> "", fields |-> ParseParts(request.parts, 1, TRUE, NoFields)]
    ELSE IF request.parts # <<>> /\ ~request.decodable THEN Raised("UnicodeDecodeError")
    ELSE [raised |-> "", fields |-> ParseParts(request.parts, 1, FALSE, NoFields)]

\* str.strip() and bytes.strip()
IsSpace(code) == code \in {9, 10, 11, 12, 13, 32}

RECURSIVE Strip(_)
Strip(codes) ==
    IF codes = <<>> THEN codes
    ELSE IF IsSpace(codes[1]) THEN Strip(Tail(codes))
    ELSE IF IsSpace(codes[Len(codes)]) THEN Strip(SubSeq(codes, 1, Len(codes) - 1))
    ELSE codes

\* {"location":"Oaxaca"}
LocationSource ==
    <<123, 34, 108, 111, 99, 97, 116, 105, 111, 110, 34, 58, 34, 79, 97, 120, 97,
      99, 97, 34, 125>>

\* json.loads on the metadata sources of the model: {}, [], {b, "e-acute"
\* and {"location":"Oaxaca"}
JsonLoads(codes) ==
    CASE codes = <<123, 125>> -> [parsed |-> "dict", dict |-> EmptyDict]
      [] codes = LocationSource
           -> [parsed |-> "dict", dict |-> [key \in {"location"} |-> "Oaxaca"]]
      [] codes = <<91, 93>> -> [parsed |-> "list"]
      [] codes = <<34, 233, 34>> -> [parsed |-> "str"]
      [] codes = <<123, 98>>
           -> [parsed |-> "JSONDecodeError",
               msg |-> "Expecting property name enclosed in double quotes"]

\* the concatenation of a list of strs
RECURSIVE Join(_, _)
Join(strs, i) == IF i > Len(strs) THEN <<>> ELSE strs[i] \o Join(strs, i + 1)

\* f"{value:.3f}".rstrip("0").rstrip(".")
FormatFloat(value) ==
    LET units == RoundedUnits(value, 1000)
        whole == ToString(units \div 1000)
        thousandths == units % 1000
    IN  IF thousandths = 0 THEN whole
        ELSE IF thousandths % 100 = 0 THEN whole \o "." \o Digits(thousandths \div 100, 1)
        ELSE IF thousandths % 10 = 0 THEN whole \o "." \o Digits(thousandths \div 10, 2)
        ELSE whole \o "." \o Digits(thousandths, 3)

\* the f-string pieces of an ethnography text, as one str
Pieces(pieces) == List([i \in 1..Len(pieces) |-> Lit(pieces[i])])

\* json.dumps of the cultural indicators
JsonDumps(indicators) ==
    <<Lit("{"), Cp(34), Lit("community_participation"), Cp(34), Lit(": "), Cp(34),
      Lit(indicators.community_participation), Cp(34), Lit(", "), Cp(34),
      Lit("ritual_significance"), Cp(34), Lit(": "), Cp(34),
      Lit(indicators.ritual_significance), Cp(34), Lit(", "), Cp(34),
      Lit("gender_roles"), Cp(34), Lit(": "), Cp(34), Lit(indicators.gender_roles),
      Cp(34), Lit("}")>>

Entry(label, value) == [label |-> label, value |-> value]

\* _format_report(report), each value through _format_value
FormatReport(report) ==
    <<[title |-> "Musical",
       entries |-> <<Entry("Tempo bpm", <<Lit(FormatFloat(report.musical.tempo_bpm))>>),
                     Entry("Key", <<Lit(report.musical.key)>>),
                     Entry("Mode", <<Lit(report.musical.mode)>>),
                     Entry("Energy", <<Lit(FormatFloat(report.musical.energy))>>),
                     Entry("Spectral centroid",
                           <<Lit(FormatFloat(report.musical.spectral_centroid))>>),
                     Entry("Commentary", <<Lit(report.musical.commentary)>>)>>],
      [title |-> "Dance",
       entries |-> <<Entry("Average motion",
                           <<Lit(FormatFloat(report.dance.average_motion))>>),
                     Entry("Motion variability",
                           <<Lit(FormatFloat(report.dance.motion_variability))>>),
                     Entry("Direction changes",
                           <<Lit(ToString(report.dance.direction_changes))>>),
                     Entry("Footwork intensity",
                           <<Lit(FormatFloat(report.dance.footwork_intensity))>>),
                     Entry("Commentary", <<Lit(report.dance.commentary)>>)>>],
      [title |-> "Ethnography",
       entries |-> <<Entry("Summary", Pieces(report.ethnography.summary)),
                     Entry("Musical context", Pieces(report.ethnography.musical_context)),
                     Entry("Dance context", Pieces(report.ethnography.dance_context)),
                     Entry("Cultural indicators",
                           JsonDumps(report.ethnography.cultural_indicators))>>]>>

\* "\n".join(entries_html)
RECURSIVE EntriesMarkup(_, _)
EntriesMarkup(entries, i) ==
    IF i > Len(entries) THEN <<>>
    ELSE (IF i > 1 THEN <<Cp(10)>> ELSE <<>>)
         \o <<Lit("<li class=\"entry\"><strong>"), Lit(entries[i].label),
               Lit("</strong>: ")>>
         \o Escape(entries[i].value) \o <<Lit("</li>")>>
         \o EntriesMarkup(entries, i + 1)

SectionMarkup(section) ==
    <<Lit("<article><h2>"), Lit(section.title), Lit("</h2>")>>
    \o (IF section.entries # <<>>
         THEN <<Lit("<ul>")>> \o EntriesMarkup(section.entries, 1) \o <<Lit("</ul>")>>
         ELSE <<Lit("<p class=\"empty\">No findings available.</p>")>>)
    \o <<Lit("</article>")>>

\* _render_template(error, metadata_source, demo, report); error and report
\* are None or Some(...), and html.escape raises TypeError on bytes
RenderTemplate(error, metadata_source, demo, report) ==
    LET error_block ==
            IF error # None
            THEN <<Lit("<div class=\"error\">")>> \o Escape(error[1]) \o <<Lit("</div>")>>
            ELSE <<>>
        demo_checked == IF demo THEN <<Lit("checked")>> ELSE <<>>
        metadata_html == Escape(Text(metadata_source.codes))
        report_block ==
            IF report # None /\ report[1] # <<>>
            THEN <<Lit("<section>")>>
                 \o Join([k \in 1..Len(report[1]) |-> SectionMarkup(report[1][k])], 1)
                 \o <<Lit("</section>")>>
            ELSE <<>>
    IN  IF metadata_source.kind # "str" THEN Raised("TypeError")
        ELSE [raised |-> "",
              body |-> <<Segment(1)>> \o error_block \o <<Segment(2)>> \o metadata_html
                       \o <<Segment(3)>> \o demo_checked \o <<Segment(4)>>
                       \o report_block \o <<Segment(5)>>]

\* _build_response(body): status, headers, body
BuildResponse(body) ==
    <<"200 OK",
      <<<<"Content-Type", "text/html; charset=utf-8">>,
        <<"Content-Length", ToString(ByteLength(Encode(body)))>>>>,
      body>>

\* return _build_response(_render_template(...)), or the exception of
\* _render_template
Page(error, metadata_source, demo, report) ==
    LET rendered == RenderTemplate(error, metadata_source, demo, report)
    IN  IF rendered.raised # "" THEN rendered
        ELSE [raised |-> "", response |-> BuildResponse(rendered.body)]

\* _render_response()
RenderResponse == Page(None, Str(<<>>), FALSE, None)

\* str(exc) of the exceptions _handle_post catches
DecoderMessage ==
    <<Lit("Unable to load audio because neither "), Cp(39), Lit("librosa"), Cp(39),
      Lit(" nor "), Cp(39), Lit("moviepy"), Cp(39), Lit(" is installed.")>>

PathMessage == <<Lit("expected str, bytes or os.PathLike object, not NoneType")>>

\* str(exc) of the OSError of a write to a full disk
CopyMessage == <<Lit("[Errno 28] No space left on device")>>

\* no temporary file was made
NoTemporary == [created |-> FALSE, exists |-> FALSE]

\* lines 73-81, the temporary copy of the upload and the report from it.
\* copy is the outcome of seek(), read() and write() inside the with block,
\* decoder the outcome of generate_report.  created says that
\* NamedTemporaryFile(delete=False) has made the file, exists that it is still
\* there when the block is left: only the finally of line 80, which the with
\* block precedes, unlinks it.  error is str(exc) of what the block raised.
TemporaryCopy(media_field, copy, decoder) ==
    IF media_field.filename = None
    THEN [created |-> FALSE, exists |-> FALSE, error |-> Some(PathMessage)]
    ELSE IF copy = "fails"
    THEN [created |-> TRUE, exists |-> TRUE, error |-> Some(CopyMessage)]
    ELSE IF decoder = "fails"
    THEN [created |-> TRUE, exists |-> FALSE, error |-> Some(DecoderMessage)]
    ELSE [created |-> TRUE, exists |-> FALSE, error |-> None]

\* the error of a metadata field: lines 48-57
MetadataError(metadata_raw) ==
    IF metadata_raw.codes = <<>> THEN None
    ELSE LET parsed == JsonLoads(metadata_raw.codes)
         IN  IF parsed.parsed = "JSONDecodeError"
             THEN Some(<<Lit("Metadata must be valid JSON: "), Lit(parsed.msg), Lit(".")>>)
             ELSE IF parsed.parsed # "dict"
             THEN Some(<<Lit("Metadata must be a JSON object.")>>)
             ELSE None

MissingMedia == <<Lit("Please provide a media file or enable demo mode.")>>

\* MediaError letting the missing media replace an earlier error
MediaErrorOverriding(media_field, demo_requested, error) ==
    IF ~demo_requested
    THEN IF media_field = None THEN [raised |-> "", error |-> Some(MissingMedia)]
         ELSE IF media_field[1].kind # "field" THEN Raised("AttributeError")
         ELSE IF media_field[1].filename = Some("")
         THEN [raised |-> "", error |-> Some(MissingMedia)]
         ELSE [raised |-> "", error |-> error]
    ELSE [raised |-> "", error |-> error]

\* the error after the media check, lines 59-62; media_field.filename of a
\* value that is no FieldStorage raises AttributeError
MediaError(media_field, demo_requested, error) ==
    IF ~demo_requested /\ error = None
    THEN IF media_field = None THEN [raised |-> "", error |-> Some(MissingMedia)]
         ELSE IF media_field[1].kind # "field" THEN Raised("AttributeError")
         ELSE IF media_field[1].filename = Some("")
         THEN [raised |-> "", error |-> Some(MissingMedia)]
         ELSE [raised |-> "", error |-> error]
    ELSE [raised |-> "", error |-> error]

\* _handle_post(environ); decoder is the outcome of generate_report on the
\* uploaded file, whose decoding libraries are outside the repository: on
\* "decoded" the report of the demonstration descriptors stands for the
\* report of the decoded media.  temporary is what has become of the
\* temporary copy when _handle_post is left.
HandlePost(request, copy, decoder) ==
    LET form == ParseForm(request)
        metadata_field == Get(form.fields, "metadata", Str(<<>>))
        metadata_raw == [metadata_field EXCEPT !.codes = Strip(@)]
        demo_requested == Get(form.fields, "demo", Str(<<>>)) = Str(<<49>>)
        first_error == MetadataError(metadata_raw)
        metadata == IF metadata_raw.codes # <<>> /\ first_error = None
                    THEN JsonLoads(metadata_raw.codes).dict
                    ELSE EmptyDict
        media_field == IF "media_file" \in DOMAIN form.fields
                       THEN Some(form.fields["media_file"])
                       ELSE None
        checked == MediaError(media_field, demo_requested, first_error)
        upload == TemporaryCopy(media_field[1], copy, decoder)
        report == Some(FormatReport(GenerateDemoReport(Metadata(TRUE, metadata))))
    IN  IF form.raised # "" THEN [raised |-> form.raised, temporary |-> NoTemporary]
        ELSE IF checked.raised # ""
        THEN [raised |-> checked.raised, temporary |-> NoTemporary]
        ELSE IF checked.error # None
        THEN [page |-> Page(checked.error, metadata_raw, demo_requested, None),
              temporary |-> NoTemporary]
        ELSE IF demo_requested
        THEN [page |-> Page(None, metadata_raw, demo_requested, report),
              temporary |-> NoTemporary]
        ELSE IF upload.error # None
        THEN [page |-> Page(upload.error, metadata_raw, demo_requested, None),
              temporary |-> [created |-> upload.created, exists |-> upload.exists]]
        ELSE [page |-> Page(None, metadata_raw, demo_requested, report),
              temporary |-> [created |-> upload.created, exists |-> upload.exists]]

\* str.upper() on the request methods of the model
Upper(method) == IF method = "post" THEN "POST" ELSE method

\* app(environ, start_response): the calls of start_response and the
\* returned list of bytes
AppResult(request, copy, decoder) ==
    LET post == HandlePost(request, copy, decoder)
        handled == IF Upper(request.method) # "POST" THEN RenderResponse
                   ELSE IF "page" \in DOMAIN post THEN post.page
                   ELSE post
        temporary == IF Upper(request.method) = "POST" THEN post.temporary
                     ELSE NoTemporary
    IN  IF handled.raised # ""
        THEN [raised |-> handled.raised, start_response |-> <<>>,
              temporary |-> temporary]
        ELSE [raised |-> "",
              start_response |-> <<<<handled.response[1], handled.response[2]>>>>,
              returned |-> <<Encode(handled.response[3])>>,
              temporary |-> temporary]

\* The requests: form fields by name, value and (in a multipart body) file
\* name.  The metadata sources are a blank, {} and {b with white space around
\* them, [], a JSON string and an object with a location.
MaxParts == 2

MetadataSources ==
    {<<32>>, <<32, 123, 125, 10>>, <<91, 93>>, <<123, 98, 32>>, <<34, 233, 34>>,
     LocationSource}

Parts ==
    {Part("metadata", None, codes) : codes \in MetadataSources}
    \cup {Part("metadata", Some("m.json"), codes) : codes \in {<<123, 125>>, <<91, 93>>}}
    \cup {Part("demo", None, codes) : codes \in {<<49>>, <<48>>}}
    \cup {Part("media", filename, <<>>) : filename \in {None, Some(""), Some("a.mp4")}}
    \cup {Part("media_file", None, <<120>>), Part("", None, <<120>>)}

PartLists == UNION {[1..k -> Parts] : k \in 0..MaxParts}

\* the name=value pairs of a url-encoded body
PairLists == {list \in PartLists : \A i \in 1..Len(list) : list[i].filename = None}

Methods == {"GET", "POST", "post"}

Request(method, content_type, decodable, parts) ==
    [method |-> method, content_type |-> content_type, decodable |-> decodable,
     parts |-> parts]

\* a url-encoded body carries no file names, and only a non-empty one can
\* fail to decode
Requests ==
    {Request(method, "multipart/form-data; boundary=B", TRUE, parts) :
        method \in Methods, parts \in PartLists}
    \cup {Request(method, "application/x-www-form-urlencoded", TRUE, parts) :
            method \in Methods, parts \in PairLists}
    \cup {Request(method, "application/x-www-form-urlencoded", FALSE, parts) :
            method \in Methods, parts \in PairLists \ {<<>>}}

Decoders == {"decoded", "fails"}

\* the outcomes of copying the upload into the temporary file
Copies == {"copied", "fails"}

-----------------------------------------------------------------------------
(* The state machine *)

NoArgs == [op |-> "none"]

NoResult == [raised |-> "none"]

\* AudioAnalyzer.__init__ and DanceAnalyzer.__init__
Init ==
    /\ \E config \in Configs :
          /\ sample_rate = config[1]
          /\ frame_sample_rate = config[2]
          /\ constructed = config
    /\ pc = "idle"
    /\ args = NoArgs
    /\ result = NoResult

\* a caller hands a waveform and a sample rate to analyze_signal
CallAnalyzeSignal(signal, sr) ==
    /\ pc = "idle"
    /\ pc' = "analyze_signal"
    /\ args' = [op |-> "analyze_signal", signal |-> signal, sample_rate |-> sr]
    /\ UNCHANGED <<sample_rate, frame_sample_rate, constructed, result>>

\* SampleRateAfter with the rate of the call stored on the analyzer
SampleRateStored(own_rate, sr) == IF sr # 0 THEN sr ELSE own_rate

\* self.sample_rate after analyze_signal(signal, sr): the method binds the
\* rate it uses to a local name
SampleRateAfter(own_rate, sr) == own_rate

\* AudioAnalyzer.analyze_signal
AnalyzeSignal ==
    /\ pc = "analyze_signal"
    /\ result' = AnalyzeSignalResult(args.signal, args.sample_rate, sample_rate)
    /\ sample_rate' = SampleRateAfter(sample_rate, args.sample_rate)
    /\ pc' = "returned"
    /\ UNCHANGED <<frame_sample_rate, constructed, args>>

\* a caller hands frames and a frame rate to analyze_frames
CallAnalyzeFrames(frames, fps) ==
    /\ pc = "idle"
    /\ pc' = "analyze_frames"
    /\ args' = [op |-> "analyze_frames", frames |-> frames, fps |-> fps]
    /\ UNCHANGED <<sample_rate, frame_sample_rate, constructed, result>>

\* DanceAnalyzer.analyze_frames
AnalyzeFrames ==
    /\ pc = "analyze_frames"
    /\ result' = AnalyzeFramesResult(args.frames, args.fps, frame_sample_rate)
    /\ pc' = "returned"
    /\ UNCHANGED <<sample_rate, frame_sample_rate, constructed, args>>

\* a caller asks for the demo report
CallGenerateDemoReport(metadata) ==
    /\ pc = "idle"
    /\ pc' = "generate_demo_report"
    /\ args' = [op |-> "generate_demo_report", metadata |-> metadata]
    /\ UNCHANGED <<sample_rate, frame_sample_rate, constructed, result>>

\* report.generate_demo_report
DemoReport ==
    /\ pc = "generate_demo_report"
    /\ result' = GenerateDemoReport(args.metadata)
    /\ pc' = "returned"
    /\ UNCHANGED <<sample_rate, frame_sample_rate, constructed, args>>

\* a caller hands an argument list to parse_args
CallParseArgs(argv) ==
    /\ pc = "idle"
    /\ pc' = "parse_args"
    /\ args' = [op |-> "parse_args", argv |-> argv]
    /\ UNCHANGED <<sample_rate, frame_sample_rate, constructed, result>>

\* cli.parse_args
ParseArgs ==
    /\ pc = "parse_args"
    /\ result' = ParseArgsResult(args.argv)
    /\ pc' = "returned"
    /\ UNCHANGED <<sample_rate, frame_sample_rate, constructed, args>>

\* a server hands a request to the WSGI application
CallApp(request) ==
    /\ pc = "idle"
    /\ pc' = "app"
    /\ args' = [op |-> "app", request |-> request]
    /\ UNCHANGED <<sample_rate, frame_sample_rate, constructed, result>>

\* webapp.create_app().app
App ==
    /\ pc = "app"
    /\ \E copy \in Copies, decoder \in Decoders :
          result' = AppResult(args.request, copy, decoder)
    /\ pc' = "returned"
    /\ UNCHANGED <<sample_rate, frame_sample_rate, constructed, args>>

\* the caller is done with the returned value (or the exception)
Discard ==
    /\ pc = "returned"
    /\ pc' = "idle"
    /\ args' = NoArgs
    /\ result' = NoResult
    /\ UNCHANGED <<sample_rate, frame_sample_rate, constructed>>

Next ==
    \/ \E call \in SignalCalls : CallAnalyzeSignal(call[1], call[2])
    \/ AnalyzeSignal
    \/ \E call \in FrameCalls : CallAnalyzeFrames(call[1], call[2])
    \/ AnalyzeFrames
    \/ \E metadata \in Metadatas : CallGenerateDemoReport(metadata)
    \/ DemoReport
    \/ \E argv \in ArgLists : CallParseArgs(argv)
    \/ ParseArgs
    \/ \E request \in Requests : CallApp(request)
    \/ App
    \/ Discard

Spec == Init /\ [][Next]_vars

-----------------------------------------------------------------------------
(* The pure tone of tests/test_audio_analysis.py *)

\* AudioAnalyzer(sample_rate=4000); the motion analyzer keeps its default
ToneInit ==
    /\ sample_rate = ToneRate
    /\ frame_sample_rate = 3
    /\ constructed = <<ToneRate, 3>>
    /\ pc = "idle"
    /\ args = NoArgs
    /\ result = NoResult

\* analyze_signal(signal, sample_rate) on the tone.  Which lag wins the search
\* of _estimate_tempo rests on float sums of near-equal correlations, so the
\* tempo is any of the values the search can return.
AnalyzeToneResults(signal, sr_arg, own_rate) ==
    LET sr == IF sr_arg # 0 THEN sr_arg ELSE own_rate
        normalized == Normalize(ToMono(signal))
        described == Descriptor(normalized, sr, Zero)
    IN  {[described EXCEPT
             !.tempo_bpm = tempo,
             !.commentary = AudioCommentary(tempo, described.key, described.mode,
                                described.energy, described.spectral_centroid)] :
         tempo \in TempoCandidates(Len(normalized), sr)}

\* AudioAnalyzer.analyze_signal on the tone
AnalyzeTone ==
    /\ pc = "analyze_signal"
    /\ result' \in AnalyzeToneResults(args.signal, args.sample_rate, sample_rate)
    /\ sample_rate' = SampleRateAfter(sample_rate, args.sample_rate)
    /\ pc' = "returned"
    /\ UNCHANGED <<frame_sample_rate, constructed, args>>

ToneNext ==
    \/ \E residue \in Residues, sr \in {0, ToneRate} :
          CallAnalyzeSignal(PureTone(residue), sr)
    \/ AnalyzeTone
    \/ Discard

ToneSpec == ToneInit /\ [][ToneNext]_vars

-----------------------------------------------------------------------------
(* The commentaries on values at and around their thresholds *)

LadderTempos == {R(0), R(69), R(70), R(109), R(110)}

LadderEnergies == {Rat(9, 100), Rat(1, 10), Rat(29, 100), Rat(3, 10)}

LadderCentroids == {R(499), R(500), R(1999), R(2000)}

LadderMotions == {Rat(9, 1000), Rat(1, 100), Rat(49, 1000), Rat(5, 100)}

LadderVariabilities == {Rat(9, 1000), Rat(1, 100)}

LadderChanges == 0..3

LadderFootwork == {Rat(19, 1000), Rat(2, 100), Rat(49, 1000), Rat(5, 100)}

\* a caller hands descriptors to AudioAnalyzer._compose_commentary
CallComposeAudio(tempo, energy, spectral_centroid) ==
    /\ pc = "idle"
    /\ pc' = "compose_audio"
    /\ args' = [op |-> "compose_audio", tempo |-> tempo, key |-> "A4", mode |-> "Major",
                energy |-> energy, spectral_centroid |-> spectral_centroid]
    /\ UNCHANGED <<sample_rate, frame_sample_rate, constructed, result>>

\* AudioAnalyzer._compose_commentary
ComposeAudio ==
    /\ pc = "compose_audio"
    /\ result' = [raised |-> "",
                  commentary |-> AudioCommentary(args.tempo, args.key, args.mode,
                                     args.energy, args.spectral_centroid)]
    /\ pc' = "returned"
    /\ UNCHANGED <<sample_rate, frame_sample_rate, constructed, args>>

\* a caller hands descriptors to DanceAnalyzer._compose_commentary
CallComposeDance(average_motion, motion_variability, direction_changes, footwork_intensity, fps) ==
    /\ pc = "idle"
    /\ pc' = "compose_dance"
    /\ args' = [op |-> "compose_dance", average_motion |-> average_motion,
                motion_variability |-> motion_variability,
                direction_changes |-> direction_changes,
                footwork_intensity |-> footwork_intensity, fps |-> fps]
    /\ UNCHANGED <<sample_rate, frame_sample_rate, constructed, result>>

\* DanceAnalyzer._compose_commentary
ComposeDance ==
    /\ pc = "compose_dance"
    /\ result' = LET effective_sampling == EffectiveSampling(args.fps, frame_sample_rate)
                 IN  IF IsErr(effective_sampling) THEN Raised("ZeroDivisionError")
                     ELSE [raised |-> "",
                           commentary |->
                               DanceCommentary(args.average_motion, args.motion_variability,
                                   args.direction_changes, args.footwork_intensity,
                                   effective_sampling)]
    /\ pc' = "returned"
    /\ UNCHANGED <<sample_rate, frame_sample_rate, constructed, args>>

CommentaryNext ==
    \/ \E tempo \in LadderTempos, energy \in LadderEnergies, centroid \in LadderCentroids :
          CallComposeAudio(tempo, energy, centroid)
    \/ ComposeAudio
    \/ \E motion \in LadderMotions, variability \in LadderVariabilities,
          changes \in LadderChanges, footwork \in LadderFootwork, fps \in {0, 24} :
          CallComposeDance(motion, variability, changes, footwork, fps)
    \/ ComposeDance
    \/ Discard

CommentarySpec == Init /\ [][CommentaryNext]_vars

-----------------------------------------------------------------------------
(* The stages of analyze_signal, each on its own *)

\* waveforms whose autocorrelation is the same at several lags
TiedWaveforms ==
    {Waveform(FALSE, <<0, 1, 1, 2>>), Waveform(FALSE, <<0, 1, 1, 1, 2>>),
     Waveform(FALSE, <<0, 0, 1, 1, 0, 0>>)}

\* the mono waveforms that analyze_signal accepts
StageWaveforms ==
    {signal \in MonoWaveforms \cup PulseTrains : signal.data # <<>>} \cup TiedWaveforms

\* the sample rates of the stages: the lags of 200 and 40 BPM are whole
\* numbers at 10 and 40, and the window is a whole number at 40
StageRates == {4, 5, 10, 35, 40}

\* analyze_signal hands the normalized signal to _estimate_tempo
CallEstimateTempo(signal, sr) ==
    /\ pc = "idle"
    /\ pc' = "estimate_tempo"
    /\ args' = [op |-> "estimate_tempo", signal |-> Normalize(ToMono(signal)),
                sample_rate |-> sr]
    /\ UNCHANGED <<sample_rate, frame_sample_rate, constructed, result>>

\* AudioAnalyzer._estimate_tempo
EstimateTempoReturns ==
    /\ pc = "estimate_tempo"
    /\ result' = EstimateTempoLocals(args.signal, args.sample_rate)
    /\ pc' = "returned"
    /\ UNCHANGED <<sample_rate, frame_sample_rate, constructed, args>>

\* the windows of the moving average
StageWindows == 1..3

\* _estimate_tempo hands the absolute samples and a window to _moving_average
CallMovingAverage(signal, window) ==
    /\ pc = "idle"
    /\ pc' = "moving_average"
    /\ args' = [op |-> "moving_average",
                values |-> LET mono == ToMono(signal)
                           IN  List([i \in 1..Len(mono) |-> RAbs(mono[i])]),
                window |-> window]
    /\ UNCHANGED <<sample_rate, frame_sample_rate, constructed, result>>

\* _moving_average up to its loop: a window of 1 or less returns the values
MovingAverageEnters ==
    /\ pc = "moving_average"
    /\ IF args.window <= 1
       THEN /\ result' = [raised |-> "", averaged |-> args.values]
            /\ pc' = "returned"
       ELSE /\ result' = [raised |-> "", i |-> 1, queue |-> <<>>, cumulative |-> Zero,
                          averaged |-> <<>>]
            /\ pc' = "moving_average_loop"
    /\ UNCHANGED <<sample_rate, frame_sample_rate, constructed, args>>

\* one pass of the loop of _moving_average
MovingAverageIterates ==
    /\ pc = "moving_average_loop"
    /\ result.i <= Len(args.values)
    /\ result' = MovingAverageIteration(args.values, args.window, result.i, result.queue,
                      result.cumulative, result.averaged)
    /\ UNCHANGED <<sample_rate, frame_sample_rate, constructed, args, pc>>

\* return averaged
MovingAverageReturns ==
    /\ pc = "moving_average_loop"
    /\ result.i > Len(args.values)
    /\ pc' = "returned"
    /\ UNCHANGED <<sample_rate, frame_sample_rate, constructed, args, result>>

\* analyze_signal hands the flattened signal, which is not empty, to
\* _normalize
CallNormalize(signal) ==
    /\ pc = "idle"
    /\ pc' = "normalize"
    /\ args' = [op |-> "normalize", signal |-> ToMono(signal)]
    /\ UNCHANGED <<sample_rate, frame_sample_rate, constructed, result>>

\* AudioAnalyzer._normalize: it builds a new list and writes to no other
NormalizeReturns ==
    /\ pc = "normalize"
    /\ result' = [raised |-> "", normalized |-> Normalize(args.signal)]
    /\ pc' = "returned"
    /\ UNCHANGED <<sample_rate, frame_sample_rate, constructed, args>>

\* the MIDI numbers of the note-name stage: MIDI 0 is 8.18 Hz, so the
\* negative ones are frequencies below that
MaxBelowZero == 30
MaxMidi == 135
MidiNumbers == -MaxBelowZero..MaxMidi

\* _frequency_to_note has rounded a positive frequency to midi_number
CallFrequencyToNote(midi_number) ==
    /\ pc = "idle"
    /\ pc' = "frequency_to_note"
    /\ args' = [op |-> "frequency_to_note", midi_number |-> midi_number]
    /\ UNCHANGED <<sample_rate, frame_sample_rate, constructed, result>>

\* the octave, the name and the string of the note
FrequencyToNoteReturns ==
    /\ pc = "frequency_to_note"
    /\ result' = [raised |-> "",
                  octave |-> NoteLocals(args.midi_number).octave,
                  index |-> NoteLocals(args.midi_number).index,
                  note |-> NoteOfMidi(args.midi_number)]
    /\ pc' = "returned"
    /\ UNCHANGED <<sample_rate, frame_sample_rate, constructed, args>>

\* the frame sequences that analyze_frames accepts
StageSequences == (FreeSequences \cup Tracks \cup SquareSequences) \ {<<>>}

\* a caller hands frames to analyze_frames
CallMotionProfile(frames) ==
    /\ pc = "idle"
    /\ pc' = "motion_profile"
    /\ args' = [op |-> "motion_profile", frames |-> frames]
    /\ UNCHANGED <<sample_rate, frame_sample_rate, constructed, result>>

\* analyze_frames up to motion_variability
MotionProfileReturns ==
    /\ pc = "motion_profile"
    /\ result' = AnalyzeFramesLocals(args.frames)
    /\ pc' = "returned"
    /\ UNCHANGED <<sample_rate, frame_sample_rate, constructed, args>>

StagesNext ==
    \/ \E midi_number \in MidiNumbers : CallFrequencyToNote(midi_number)
    \/ FrequencyToNoteReturns
    \/ \E frames \in StageSequences : CallMotionProfile(frames)
    \/ MotionProfileReturns
    \/ \E signal \in StageWaveforms \cup MultiWaveforms : CallNormalize(signal)
    \/ NormalizeReturns
    \/ \E signal \in StageWaveforms, sr \in StageRates : CallEstimateTempo(signal, sr)
    \/ EstimateTempoReturns
    \/ \E signal \in StageWaveforms \cup MonoWaveforms, window \in StageWindows :
          CallMovingAverage(signal, window)
    \/ MovingAverageEnters
    \/ MovingAverageIterates
    \/ MovingAverageReturns
    \/ Discard

StagesSpec == Init /\ [][StagesNext]_vars

-----------------------------------------------------------------------------
(* Properties *)

\* the call named op has returned or raised
ReturnedFrom(op) == pc = "returned" /\ args.op = op

\* the sample rate analyze_signal works with
EffectiveRate == IF args.sample_rate # 0 THEN args.sample_rate ELSE sample_rate

\* C1: for a non-empty waveform and a positive sample rate the tempo returned
\* by analyze_signal is 0 or lies in [40, 200] BPM.
C1_TempoWithinBounds ==
    (ReturnedFrom("analyze_signal") /\ args.signal.data # <<>> /\ EffectiveRate >= 1)
        => /\ result.raised = ""
           /\ \/ result.tempo_bpm = Zero
              \/ RLe(R(40), result.tempo_bpm) /\ RLe(result.tempo_bpm, R(200))

\* C2: analyze_signal on an empty waveform and analyze_frames on an empty
\* frame sequence raise ValueError and return no descriptor.
C2_EmptyInputRaises ==
    /\ (ReturnedFrom("analyze_signal") /\ args.signal.data = <<>>)
           => result = Raised("ValueError")
    /\ (ReturnedFrom("analyze_frames") /\ args.frames = <<>>)
           => result = Raised("ValueError")

C2_Witness ==
    /\ ReturnedFrom("analyze_frames")
    /\ args.frames = <<>>
    /\ result = Raised("ValueError")

\* the waveform is mono, non-empty, and every sample is zero
AllZero(signal) ==
    /\ ~signal.multi
    /\ signal.data # <<>>
    /\ \A i \in 1..Len(signal.data) : signal.data[i] = 0

\* C3: an all-zero waveform of length N >= 1 at a sample rate >= 1 yields
\* tempo 0, key and mode "Unknown" and energy 0, and raises nothing.
C3_Silence ==
    (ReturnedFrom("analyze_signal") /\ AllZero(args.signal) /\ EffectiveRate >= 1)
        => /\ result.raised = ""
           /\ result.tempo_bpm = Zero
           /\ result.key = "Unknown"
           /\ result.mode = "Unknown"
           /\ result.energy = Zero

C3_Witness ==
    /\ ReturnedFrom("analyze_signal")
    /\ args.signal = Waveform(FALSE, <<0, 0, 0>>)
    /\ args.sample_rate = 4
    /\ result.raised = ""
    /\ result.energy = Zero

\* the centroid trajectory of the frames of the call
Trajectory ==
    CenterOfMassTrajectory(
        [k \in 1..Len(args.frames) |-> ToGrayscale(ToMatrix(args.frames[k]))])

\* the signs of the horizontal deltas of a trajectory, the zero ones left out
IsNonZero(sign) == sign # 0

NonZeroSigns(trajectory) ==
    SelectSeq([k \in 1..Max(Len(trajectory) - 1, 0) |->
                  Sign(RSub(trajectory[k + 1][2], trajectory[k][2]))],
              IsNonZero)

\* the positions at which a sign differs from the one before it
SignFlips(signs) == Cardinality({i \in 2..Len(signs) : signs[i] # signs[i - 1]})

\* the dot moves right for 3 frames, then left for 3 frames
RightThenLeft == TrackOf(<<0, 1, 2, 3, 2, 1, 0>>)

\* C4: direction_changes is the number of positions, in the sequence of
\* non-zero horizontal deltas, whose sign differs from the previous non-zero
\* delta; fewer than 3 points give 0; right for 3 frames then left for 3
\* frames gives 1.
C4_DirectionChanges ==
    (ReturnedFrom("analyze_frames") /\ result.raised = "")
        => /\ result.direction_changes = SignFlips(NonZeroSigns(Trajectory))
           /\ Len(args.frames) < 3 => result.direction_changes = 0
           /\ args.frames = RightThenLeft => result.direction_changes = 1

C4_Witness ==
    /\ ReturnedFrom("analyze_frames")
    /\ args.frames = TrackOf(<<0, 1, 1, 0, 0, 1>>)
    /\ result.raised = ""
    /\ result.direction_changes = 2

\* C5: frames showing a bright square that translates by a constant non-zero
\* step give average_motion > 0 and footwork_intensity > 0.
C5_MovingSquare ==
    (ReturnedFrom("analyze_frames") /\ args.frames \in SquareSequences
         /\ frame_sample_rate >= 1)
        => /\ result.raised = ""
           /\ RLt(Zero, result.average_motion)
           /\ RLt(Zero, result.footwork_intensity)

C5_Witness ==
    /\ ReturnedFrom("analyze_frames")
    /\ args.frames \in SquareSequences
    /\ Len(args.frames) = 3
    /\ frame_sample_rate >= 1
    /\ result.raised = ""
    /\ RLt(Zero, result.average_motion)
    /\ RLt(Zero, result.footwork_intensity)

\* the keys whose note name starts with "A": A or A# in any octave
KeysInA == {name \o ToString(octave) : name \in {"A", "A#"}, octave \in -1..9}

\* C6: the 440 Hz sine sampled at 4000 Hz for 0.5 s yields a key starting
\* with "A", an energy above 0.5 and a non-empty commentary.
C6_PureTone ==
    (ReturnedFrom("analyze_signal") /\ args.signal \in {PureTone(r) : r \in Residues})
        => /\ result.raised = ""
           /\ result.key \in KeysInA
           /\ RLt(Rat(1, 2), result.energy)
           /\ \E i \in 1..Len(result.commentary) : result.commentary[i] # ""

C6_Witness ==
    /\ ReturnedFrom("analyze_signal")
    /\ args.signal = PureTone(1)
    /\ Len(args.signal.data) = 2000
    /\ result.raised = ""
    /\ result.key = "A4"
    /\ result.tempo_bpm = Rat(240000, 1998)

\* what the call in progress returns on analyzers fresh from their constructors
Isolated ==
    CASE pc = "analyze_signal"
           -> AnalyzeSignalResult(args.signal, args.sample_rate, constructed[1])
      [] pc = "analyze_frames"
           -> AnalyzeFramesResult(args.frames, args.fps, constructed[2])
      [] OTHER -> result

NonNegative(x) == RLe(Zero, x)

\* C8: for a non-empty input with a positive sample rate or a non-negative
\* frame rate, every numeric field of the returned descriptor is non-negative.
C8_NonNegativeFields ==
    /\ (ReturnedFrom("analyze_signal") /\ result.raised = "" /\ EffectiveRate >= 1)
           => /\ NonNegative(result.tempo_bpm)
              /\ NonNegative(result.energy)
              /\ NonNegative(result.spectral_centroid)
    /\ (ReturnedFrom("analyze_frames") /\ result.raised = "" /\ args.fps >= 0)
           => /\ NonNegative(result.average_motion)
              /\ NonNegative(result.motion_variability)
              /\ result.direction_changes \in Nat
              /\ NonNegative(result.footwork_intensity)

C8_Witness ==
    /\ ReturnedFrom("analyze_signal")
    /\ args.signal = Waveform(FALSE, <<2, 1, -1>>)
    /\ EffectiveRate >= 1
    /\ result.raised = ""
    /\ RLt(Zero, result.spectral_centroid)
    /\ RLt(Zero, result.energy)

Appears(text, pieces) == \E i \in 1..Len(pieces) : pieces[i] = text

\* C10: generate_demo_report returns the same musical and dance descriptors
\* (tempo 108.0, key "D Minor", 7 direction changes) for every metadata, and a
\* supplied location appears in the summary of the ethnography.
C10_DemoReport ==
    ReturnedFrom("generate_demo_report")
        => /\ result.musical = DemoMusical(Metadata(FALSE, EmptyDict))
           /\ result.dance = DemoDance(Metadata(FALSE, EmptyDict))
           /\ result.musical.tempo_bpm = R(108)
           /\ result.musical.key = "D Minor"
           /\ result.dance.direction_changes = 7
           /\ "location" \in DOMAIN args.metadata.dict
                 => Appears(args.metadata.dict["location"], result.ethnography.summary)

C10_Witness ==
    /\ ReturnedFrom("generate_demo_report")
    /\ args.metadata.given
    /\ "location" \in DOMAIN args.metadata.dict
    /\ args.metadata.dict["location"] = "Test City"
    /\ result.ethnography.summary[2] = "Test City"
    /\ result.musical.key = "D Minor"

\* the tokens of an argument list that are neither option strings nor the
\* value of a --metadata option
RECURSIVE Operands(_, _)
Operands(argv, i) ==
    IF i > Len(argv) THEN <<>>
    ELSE IF argv[i] = "--metadata" THEN Operands(argv, i + 2)
    ELSE IF argv[i] = "--demo" THEN Operands(argv, i + 1)
    ELSE <<argv[i]>> \o Operands(argv, i + 1)

\* every --metadata of the list is followed by a value
RECURSIVE OptionsComplete(_, _)
OptionsComplete(argv, i) ==
    IF i > Len(argv) THEN TRUE
    ELSE IF argv[i] = "--metadata"
    THEN i < Len(argv) /\ ~IsOptionString(argv[i + 1]) /\ OptionsComplete(argv, i + 2)
    ELSE OptionsComplete(argv, i + 1)

\* C11: parse_args accepts an argument list if and only if exactly one of
\* --demo and the media path is given; with neither or both it exits with a
\* parser error, with --demo alone it returns demo True and media None, and
\* with a media path alone it returns that path and demo False.
C11_DemoOrMedia ==
    (ReturnedFrom("parse_args") /\ OptionsComplete(args.argv, 1))
        => LET demo == Appears("--demo", args.argv)
               paths == Operands(args.argv, 1)
           IN  /\ result.raised = "" <=> (demo /\ paths = <<>>) \/ (~demo /\ Len(paths) = 1)
               /\ (~demo /\ paths = <<>>) => result = Raised("SystemExit")
               /\ (demo /\ paths # <<>>) => result = Raised("SystemExit")
               /\ (demo /\ paths = <<>>) => result.demo /\ result.media = None
               /\ (~demo /\ Len(paths) = 1)
                      => ~result.demo /\ result.media = Some(paths[1])

C11_Witness ==
    /\ ReturnedFrom("parse_args")
    /\ args.argv = <<"--demo", "video.mp4">>
    /\ result = Raised("SystemExit")

\* the last part of the request with one of the names, or None
LastPart(request, names) ==
    LET found == {i \in 1..Len(request.parts) : request.parts[i].name \in names}
    IN  IF found = {} THEN None
        ELSE Some(request.parts[CHOOSE i \in found : \A j \in found : j <= i])

IsPost == Upper(args.request.method) = "POST"

\* the page the app returned holds the text
Shows(text) == \E i \in 1..Len(result.returned[1]) : result.returned[1][i] = Lit(text)

HasReport == Shows("<section>")

\* C12: for every request the app calls start_response exactly once, with
\* "200 OK", a text/html Content-Type and the byte length of the body as
\* Content-Length, and returns the page: no exception escapes
C12_AlwaysAnswersWithPage ==
    ReturnedFrom("app")
        => /\ result.raised = ""
           /\ Len(result.start_response) = 1
           /\ result.start_response[1][1] = "200 OK"
           /\ result.start_response[1][2][1] = <<"Content-Type", "text/html; charset=utf-8">>
           /\ result.start_response[1][2][2]
                  = <<"Content-Length", ToString(ByteLength(result.returned[1]))>>
           /\ result.returned[1][1] = Segment(1)

\* the metadata field of the request is blank or holds a JSON object
MetadataAcceptable ==
    LET field == LastPart(args.request, {"metadata"})
    IN  \/ field = None
        \/ Strip(field[1].codes) \in {<<>>, <<123, 125>>, LocationSource}

DemoSet ==
    LET field == LastPart(args.request, {"demo"})
    IN  field # None /\ field[1].codes = <<49>>

\* the form holds an uploaded file (one with a file name) as its media file
MediaUploaded ==
    LET field == LastPart(args.request, {"media", "media_file"})
    IN  /\ IsMultipart(args.request.content_type)
        /\ field # None
        /\ field[1].name = "media"
        /\ field[1].filename \notin {None, Some("")}

\* the form holds no media file, or one with an empty file name
MediaAbsent ==
    LET field == LastPart(args.request, {"media", "media_file"})
    IN  \/ field = None
        \/ ~IsMultipart(args.request.content_type) /\ field[1].name = "media"
        \/ /\ IsMultipart(args.request.content_type)
           /\ field[1].name = "media"
           /\ field[1].filename = Some("")

ShowsMetadataError ==
    Shows("Metadata must be a JSON object.") \/ Shows("Metadata must be valid JSON: ")

Says(k, sentence) == result.commentary[k] = sentence

\* lo <= value < hi
Within(value, lo, hi) == RLe(lo, value) /\ RLt(value, hi)

\* C14: each ladder of a commentary emits the one sentence its strict
\* thresholds select, and the audio commentary is four sentences in order
C14_CommentaryLadders ==
    /\ ReturnedFrom("compose_audio")
          => /\ Len(result.commentary) = 4
             /\ Says(1, "The soundtrack lacks a perceivable pulse, implying an ambient texture.")
                    <=> args.tempo = Zero
             /\ Says(1, "The tempo is slow, suggesting a contemplative or ritual pacing.")
                    <=> args.tempo # Zero /\ RLt(args.tempo, R(70))
             /\ Says(1, "The moderate tempo leaves room for expressive phrasing.")
                    <=> Within(args.tempo, R(70), R(110))
             /\ Says(1, "The brisk tempo points to lively movement and communal energy.")
                    <=> RLe(R(110), args.tempo)
             /\ Says(2, "Dominant pitch content centers around A4 (Major tonality).")
             /\ Says(3, "Overall dynamics are soft and restrained.")
                    <=> RLt(args.energy, Rat(1, 10))
             /\ Says(3, "Energy levels remain balanced, with measured intensity.")
                    <=> Within(args.energy, Rat(1, 10), Rat(3, 10))
             /\ Says(3, "High average energy hints at emphatic percussion or dense instrumentation.")
                    <=> RLe(Rat(3, 10), args.energy)
             /\ Says(4, "Timbre leans toward low, resonant textures.")
                    <=> RLt(args.spectral_centroid, R(500))
             /\ Says(4, "Mid-range timbres dominate the mix, providing warmth and clarity.")
                    <=> Within(args.spectral_centroid, R(500), R(2000))
             /\ Says(4, "A bright timbral profile indicates significant high-frequency content.")
                    <=> RLe(R(2000), args.spectral_centroid)
    /\ (ReturnedFrom("compose_dance") /\ result.raised = "")
          => /\ Len(result.commentary) = 5
             /\ Says(1, "Movement is minimal, indicating either stillness or slow gestures.")
                    <=> RLt(args.average_motion, Rat(1, 100))
             /\ Says(1, "The dance exhibits contained motion with deliberate control.")
                    <=> Within(args.average_motion, Rat(1, 100), Rat(5, 100))
             /\ Says(1, "High motion energy points to vigorous, full-bodied choreography.")
                    <=> RLe(Rat(5, 100), args.average_motion)
             /\ Says(2, "Motion variance is low, suggesting repeated, cyclical phrases.")
                    <=> RLt(args.motion_variability, Rat(1, 100))
             /\ Says(2, "Variation in motion indicates dynamic phrasing and spatial exploration.")
                    <=> RLe(Rat(1, 100), args.motion_variability)
             /\ Says(3, "The dancer maintains a consistent facing with minimal turns.")
                    <=> args.direction_changes = 0
             /\ Says(3, "A handful of direction changes provide accent and contrast.")
                    <=> args.direction_changes \in 1..2
             /\ Says(3, "Frequent turns and reorientations signal intricate partnering or folk steps.")
                    <=> args.direction_changes >= 3
             /\ Says(4, "Footwork articulation is subtle, favouring upper-body expression.")
                    <=> RLt(args.footwork_intensity, Rat(2, 100))
             /\ Says(4, "Balanced footwork supports gestures across the body.")
                    <=> Within(args.footwork_intensity, Rat(2, 100), Rat(5, 100))
             /\ Says(4, "Pronounced footwork dominates the choreography, highlighting rhythmic grounding.")
                    <=> RLe(Rat(5, 100), args.footwork_intensity)

\* a tempo of exactly 70 is moderate, not slow
C14_Witness ==
    /\ ReturnedFrom("compose_audio")
    /\ args.tempo = R(70)
    /\ args.energy = Rat(3, 10)
    /\ Says(1, "The moderate tempo leaves room for expressive phrasing.")
    /\ Says(3, "High average energy hints at emphatic percussion or dense instrumentation.")

\* C15: on non-empty frames, a frame rate >= 0 and a target sampling rate
\* >= 0, analyze_frames raises no division by zero and its commentary ends
\* with the sampling statement for frame_rate / max(1, frame_rate //
\* target_sample_rate) (0 at frame rate 0), which holds the word "movement"
C15_SamplingStatement ==
    (ReturnedFrom("analyze_frames") /\ args.frames # <<>> /\ args.fps >= 0
        /\ frame_sample_rate >= 0)
        => /\ result.raised = ""
           /\ Len(result.commentary) = 5
           /\ result.commentary[5]
                  = "Frame sampling at approximately "
                    \o Format1f(IF args.fps = 0 THEN Zero
                                ELSE Rat(args.fps, Max(1, args.fps \div frame_sample_rate)))
                    \o " fps captures the movement envelope."

\* round(num / den) for num >= 0 and den > 0, a tie going to the even number
RoundHalfEven(num, den) ==
    LET whole == num \div den
        rest == num % den
    IN  IF 2 * rest < den THEN whole
        ELSE IF 2 * rest > den THEN whole + 1
        ELSE whole + (whole % 2)

\* the lags are exactly the integers lo .. hi, in ascending order
LagsAre(lo, hi) ==
    /\ Len(result.lags) = Max(hi - lo + 1, 0)
    /\ \A k \in 1..Len(result.lags) : result.lags[k] = lo + k - 1

\* the centered envelope is not flat: the search takes place
Searching ==
    /\ ReturnedFrom("estimate_tempo")
    /\ \E i \in 1..Len(result.centered) : ~BelowEps(result.centered[i])

CorrelationAt(lag) == Correlation(result.centered, lag)

\* C17: the reported tempo is 60 * sample_rate / lag for the smallest of the
\* searched lags whose autocorrelation is maximal, and it is 0 when no lag
\* is searched: the lag range is empty or the centered envelope is below
\* 1e-9 throughout
C17_FirstMaximalLag ==
    ReturnedFrom("estimate_tempo")
        => IF result.lags = <<>>
           THEN result.tempo = Zero
           ELSE /\ \E k \in 1..Len(result.lags) : result.lags[k] = result.best_lag
                /\ \A k \in 1..Len(result.lags) :
                       LET lag == result.lags[k]
                       IN  /\ RLe(CorrelationAt(lag), CorrelationAt(result.best_lag))
                           /\ RLe(CorrelationAt(result.best_lag), CorrelationAt(lag))
                                  => result.best_lag <= lag
                /\ RLe(result.tempo, Rat(60 * args.sample_rate, result.best_lag))
                /\ RLe(Rat(60 * args.sample_rate, result.best_lag), result.tempo)

\* the samples 0, 1, 1, 1, 2 at rate 4: the lags 1, 2 and 3 tie, and the
\* tempo is that of lag 1
C17_Witness ==
    /\ ReturnedFrom("estimate_tempo")
    /\ args.sample_rate = 4
    /\ result.lags = <<1, 2, 3>>
    /\ CorrelationAt(1) = CorrelationAt(3)
    /\ result.best_lag = 1
    /\ result.tempo = R(240)

\* C18: the envelope window is round(sample_rate * 0.05) samples, at least 1
C18_RoundedWindow ==
    ReturnedFrom("estimate_tempo")
        => result.window = Max(1, RoundHalfEven(args.sample_rate, 20))

\* C18, amended: the envelope window is sample_rate * 0.05 truncated to a
\* whole number of samples, at least 1
C18_TruncatedWindow ==
    ReturnedFrom("estimate_tempo")
        => \E whole \in 0..args.sample_rate :
              /\ 20 * whole <= args.sample_rate
              /\ args.sample_rate < 20 * (whole + 1)
              /\ result.window = Max(1, whole)

\* at rate 35 the product is 1.75 and the window is 1
C18_Witness ==
    /\ ReturnedFrom("estimate_tempo")
    /\ args.sample_rate = 35
    /\ result.window = 1

\* a = b as numbers
Same(a, b) == a[1] * b[2] = b[1] * a[2]

\* the values at the positions first .. last (from 1), none when first > last
Recent(first, last) == SubSeq(args.values, first, last)

NormalizedWithinUnit ==
    ReturnedFrom("normalize")
        => LET flattened == args.signal
               normalized == result.normalized
               silent == \A i \in 1..Len(flattened) : flattened[i][1] = 0
           IN  /\ Len(normalized) = Len(flattened)
               /\ \A i \in 1..Len(normalized) :
                      RLe(R(-1), normalized[i]) /\ RLe(normalized[i], R(1))
               /\ ~silent
                      => /\ \E i \in 1..Len(normalized) : Same(RAbs(normalized[i]), R(1))
                         /\ \A i \in 1..Len(normalized) :
                                /\ RLt(Zero, normalized[i]) <=> RLt(Zero, flattened[i])
                                /\ RLt(normalized[i], Zero) <=> RLt(flattened[i], Zero)
               /\ silent => normalized = flattened

\* C20: after channel reduction and normalization every sample lies in
\* [-1, 1]; a signal that is not silent has a sample of magnitude 1 and keeps
\* the sign of every sample; a signal of peak zero comes back with the same
\* values; and the list handed in is not modified
C20_Normalized ==
    /\ []NormalizedWithinUnit
    /\ [][pc = "normalize" => args' = args]_vars

\* the channels (2, 1) and (-2, -2) average to 3/2 and -2 and normalize to
\* 3/4 and -1
C20_Witness ==
    /\ ReturnedFrom("normalize")
    /\ args.signal = <<Rat(3, 2), R(-2)>>
    /\ result.normalized = <<Rat(3, 4), R(-1)>>

\* the absolute differences of two rows over the columns both have
RowDifferences(prev_row, curr_row) ==
    [x \in 1..Min(Len(prev_row), Len(curr_row)) |-> RAbs(RSub(curr_row[x], prev_row[x]))]

\* the mean absolute difference of two frames over the rows and columns both
\* have, 0 when they share no pixel
MeanAbsoluteDifference(prev, curr) ==
    LET rows == 1..Min(Len(prev), Len(curr))
        totals == [y \in rows |-> RSum(RowDifferences(prev[y], curr[y]))]
        counts == [y \in rows |-> Min(Len(prev[y]), Len(curr[y]))]
        count == IntSumFrom(counts, 1)
    IN  IF count = 0 THEN Zero ELSE RDiv(RSum(totals), R(count))

\* deviation is the square root of variance, to SqrtDigits decimal places
IsRootOf(deviation, variance) ==
    LET above == RAdd(deviation, Rat(1, Shifted(1, 0, 1, SqrtDigits)))
    IN  /\ RLe(Zero, deviation)
        /\ RLe(RMul(deviation, deviation), variance)
        /\ RLt(variance, RMul(above, above))

\* C21: N >= 1 frames give a motion profile of N - 1 entries, entry k the
\* mean absolute pixel difference of frames k and k + 1 over their common
\* extent (0 when they share none); average_motion is the mean of the
\* profile and motion_variability its population standard deviation, both 0
\* for fewer than 2 frames
C21_MotionProfile ==
    ReturnedFrom("motion_profile")
        => LET frames == result.gray_frames
               profile == result.motion_profile
               count == Len(profile)
               mean == RDiv(RSum(profile), R(count))
               squares == [k \in 1..count |->
                              RMul(RSub(profile[k], mean), RSub(profile[k], mean))]
           IN  /\ count = Len(args.frames) - 1
               /\ \A k \in 1..count :
                      Same(profile[k], MeanAbsoluteDifference(frames[k], frames[k + 1]))
               /\ count = 0
                      => result.average_motion = Zero /\ result.motion_variability = Zero
               /\ count > 0
                      => /\ Same(result.average_motion, mean)
                         /\ IsRootOf(result.motion_variability,
                                     RDiv(RSum(squares), R(count)))

\* the dot rests, then moves one column: the profile is 0, 1/2, its mean 1/4
\* and its deviation 1/4
C21_Witness ==
    /\ ReturnedFrom("motion_profile")
    /\ Len(args.frames) = 3
    /\ result.motion_profile = <<Zero, Rat(1, 2)>>
    /\ result.average_motion = Rat(1, 4)
    /\ result.motion_variability = Rat(1, 4)

\* C22: for every integer MIDI number, negative ones included, the index
\* midi mod 12 lies in 0..11, the emitted name is note_names[index], the
\* octave satisfies 12 * (octave + 1) + index = midi, no other MIDI number
\* yields the same string, and MIDI 69 yields "A4"
C22_NoteNameInvertible ==
    ReturnedFrom("frequency_to_note")
        => /\ result.index \in 0..11
           /\ 12 * (result.octave + 1) + result.index = args.midi_number
           /\ result.note = note_names[result.index + 1] \o ToString(result.octave)
           /\ \A other \in MidiNumbers :
                  NoteOfMidi(other) = result.note => other = args.midi_number
           /\ args.midi_number = 69 => result.note = "A4"

\* MIDI -1, a frequency near 7.7 Hz, is the B of octave -2
C22_Witness ==
    /\ ReturnedFrom("frequency_to_note")
    /\ args.midi_number = -1
    /\ result.index = 11
    /\ result.octave = -2
    /\ result.note = "B-2"

\* the adjacent pairs (prev, curr) of a signal with prev <= 0 < curr or
\* prev >= 0 > curr
CrossingPairs(signal) ==
    {i \in 1..(Len(signal) - 1) :
        \/ RLe(signal[i], Zero) /\ RLt(Zero, signal[i + 1])
        \/ RLe(Zero, signal[i]) /\ RLt(signal[i + 1], Zero)}

\* a name of note_names followed by an octave
IsNoteWithOctave(key) ==
    \E index \in 1..12, octave \in -12..12 : key = note_names[index] \o ToString(octave)

\* key and mode of the returned descriptor are "Unknown" together, exactly
\* when the normalized signal of the call has no crossing
UnknownTogether ==
    LET crossings == Cardinality(CrossingPairs(Normalize(ToMono(args.signal))))
    IN  /\ result.key = "Unknown" <=> result.mode = "Unknown"
        /\ result.mode = "Unknown" <=> crossings = 0
        /\ crossings > 0
               => IsNoteWithOctave(result.key) /\ result.mode \in {"Major", "Minor"}

UnknownTogetherAtPositiveRates ==
    (ReturnedFrom("analyze_signal") /\ result.raised = "" /\ EffectiveRate >= 1)
        => UnknownTogether

\* C24: whenever the web app has made a temporary copy of an uploaded file
\* while handling a POST, that file no longer exists when the response is
\* returned, whether the report was generated, its generation raised, or the
\* copy into the temporary file failed
C24_TemporaryFileRemoved ==
    (ReturnedFrom("app") /\ result.raised = "" /\ result.temporary.created)
        => ~result.temporary.exists

\* a request whose upload is copied into the temporary file leaves no
\* temporary file behind, whatever generate_report does
TemporaryFileRemovedAfterCopy ==
    pc = "app"
        => \A decoder \in Decoders :
               ~AppResult(args.request, "copied", decoder).temporary.exists

====
